---------------------------- MODULE Spec2Model ----------------------------
(***************************************************************************)
(* Candidate tuning and auto-improvement pipeline of AutoLife:            *)
(*   scripts/_script_common.py                  verification_lock         *)
(*   scripts/tune_candidate_gate_trade_density.py   evaluate_combo, main  *)
(*   scripts/run_candidate_auto_improvement_loop.py main                  *)
(*   scripts/run_profitability_matrix.py        run_profile_backtests     *)
(*                                                                         *)
(* Spec      the lock protocol of verification_lock, run by two processes *)
(*           whose critical section is a body that may call               *)
(*           verification_lock again (the nested tuning run of the loop). *)
(* SpecTune  two stand-alone tuning runs at the same time, sharing one    *)
(*           configuration file, one cache file and one lock path.        *)
(* SpecRun   stand-alone tuning runs of one process, one after the other. *)
(* SpecLoop  one auto-improvement loop run with its nested tuning runs;   *)
(*           SpecLoopEps is the same run with any improvement epsilon.    *)
(* SpecCall  single calls of the combo generator and the dataset sampler. *)
(* SpecMatrix one run of the matrix runner with its pool of backtests.    *)
(*                                                                         *)
(* Time is counted in clock ticks; TimeoutSec, StaleSec and PollSec are   *)
(* the parameters timeout_sec, stale_sec and poll_sec in ticks, in the    *)
(* order of their defaults: poll < timeout < stale.                       *)
(***************************************************************************)
EXTENDS Integers, Sequences, FiniteSets, TLC

VARIABLES
    now,        \* time.time(), in clock ticks
    lockFile,   \* the lock file: NoFile, or [owner, mtime]
    marker,     \* os.environ["AUTOLIFE_VERIFICATION_LOCK_HELD"] of each process
    pc,         \* position of each process
    start,      \* verification_lock: start
    wake,       \* end of the current time.sleep
    fd,         \* verification_lock: fd is not None
    prev,       \* verification_lock: prev
    raised,     \* an exception is propagating out of the critical section
    nestedCalls,\* nested verification_lock calls made by the body so far
    hist,       \* history of each process: what the claims speak about
    kind,       \* what each process runs: "body", "tune" or "loop"
    configFile, \* content of the shared configuration file (build_config)
    cacheFile,  \* the cache document on disk: its "entries"
    artifacts,  \* the evaluations whose three report files all exist
    tune,       \* the locals of each tuning run
    plan,       \* the arguments of the runs each process is still to be started with
    loop,       \* the locals of the auto-improvement loop each process runs
    scorer,     \* two metric rows, their thresholds and the scores computed for them
    call,       \* one call of the combo generator or of the dataset sampler
    matrix      \* the locals of one run of the matrix runner

lockVars == <<now, lockFile, marker, pc, start, wake, fd, prev, raised, nestedCalls, hist>>

tuneVars == <<configFile, cacheFile, artifacts, tune, plan>>

vars == <<now, lockFile, marker, pc, start, wake, fd, prev, raised, nestedCalls, hist,
          kind, configFile, cacheFile, artifacts, tune, plan, loop, scorer, call, matrix, matrix>>

--------------------------------------------------------------------------
(* Bounds of the model *)

\* the clock stops after MaxTime ticks
MaxTime == 4
\* nested verification_lock calls one body makes at most
MaxNested == 2
\* rows of the cache file that have lost their report files, at most
MaxDangling == 1

(* Parameters of verification_lock, in clock ticks *)
TimeoutSec == 2
StaleSec == 3
PollSec == 1

Procs == {"p1", "p2"}

NoFile == [owner |-> "none", mtime |-> 0 - 1]
\* a lock file left behind by a holder that crashed just before the run
DeadFile == [owner |-> "dead", mtime |-> 0]
\* a lock file left behind by a holder that crashed long before the run
StaleFile == [owner |-> "dead", mtime |-> 0 - (StaleSec + 1)]

Unset == "unset"
MarkerValues == {Unset, "0", "1"}

NoHist == [acquired |-> FALSE, afterUnlink |-> FALSE, markerBefore |-> Unset]

--------------------------------------------------------------------------
(* verification_lock *)

\* where the body of a tuning run is: in the with statement of a stand-alone
\* run, in the nested with statement of a run called by the loop
BodyPc(p) == IF kind[p] = "loop" THEN "nested_cs" ELSE "cs"

InBody(p) == pc[p] \in {"cs", "nested_call", "nested_cs", "nested_ret"}

\* _script_common.py:110-115: the marker check of an outer or a nested call
LockEnter(p) ==
    /\ pc[p] \in {"call", "nested_call"}
    /\ IF marker[p] = "1"
         THEN /\ pc' = [pc EXCEPT ![p] = "nested_cs"]
              /\ UNCHANGED <<start, hist>>
         ELSE /\ pc' = [pc EXCEPT ![p] = "create"]
              /\ start' = [start EXCEPT ![p] = now]
              /\ hist' = [hist EXCEPT ![p].markerBefore = marker[p]]
    /\ UNCHANGED <<now, lockFile, marker, wake, fd, prev, raised, nestedCalls>>
    /\ UNCHANGED <<kind, scorer, call, matrix, loop, tuneVars>>

\* _script_common.py:119-122 and 135-136: exclusive create, then the marker
LockTryCreate(p) ==
    /\ pc[p] = "create"
    /\ IF lockFile = NoFile
         THEN /\ lockFile' = [owner |-> p, mtime |-> now]
              /\ fd' = [fd EXCEPT ![p] = TRUE]
              /\ prev' = [prev EXCEPT ![p] = marker[p]]
              /\ marker' = [marker EXCEPT ![p] = "1"]
              /\ pc' = [pc EXCEPT ![p] = "cs"]
              /\ start' = [start EXCEPT ![p] = 0]
              /\ hist' = [hist EXCEPT ![p].acquired = TRUE]
         ELSE /\ pc' = [pc EXCEPT ![p] = "stat"]
              /\ hist' = [hist EXCEPT ![p].afterUnlink = FALSE]
              /\ UNCHANGED <<lockFile, fd, prev, marker, start>>
    /\ UNCHANGED <<now, wake, raised, nestedCalls>>
    /\ UNCHANGED <<kind, scorer, call, matrix, loop, tuneVars>>

\* _script_common.py:125-130: the age of the file that is there now
LockStat(p) ==
    /\ pc[p] = "stat"
    /\ IF lockFile # NoFile /\ (now - lockFile.mtime) > StaleSec
         THEN pc' = [pc EXCEPT ![p] = "unlink"]
         ELSE pc' = [pc EXCEPT ![p] = "timeout_check"]
    /\ UNCHANGED <<now, lockFile, marker, start, wake, fd, prev, raised, nestedCalls, hist>>
    /\ UNCHANGED <<kind, scorer, call, matrix, loop, tuneVars>>

\* the unlink of line 127 without the continue of line 128
LockUnlinkStale_NoContinue(p) ==
    /\ pc[p] = "unlink"
    /\ lockFile' = NoFile
    /\ pc' = [pc EXCEPT ![p] = "timeout_check"]
    /\ hist' = [hist EXCEPT ![p].afterUnlink = TRUE]
    /\ UNCHANGED <<now, marker, start, wake, fd, prev, raised, nestedCalls>>
    /\ UNCHANGED <<kind, scorer, call, matrix, loop, tuneVars>>

\* _script_common.py:127-128: unlink(missing_ok=True); continue
LockUnlinkStale(p) ==
    /\ pc[p] = "unlink"
    /\ lockFile' = NoFile
    /\ pc' = [pc EXCEPT ![p] = "create"]
    /\ hist' = [hist EXCEPT ![p].afterUnlink = TRUE]
    /\ UNCHANGED <<now, marker, start, wake, fd, prev, raised, nestedCalls>>
    /\ UNCHANGED <<kind, scorer, call, matrix, loop, tuneVars>>

\* the test of line 131 with > in place of >=
LockTimeoutCheck_Strict(p) ==
    /\ pc[p] = "timeout_check"
    /\ IF (now - start[p]) > TimeoutSec
         THEN /\ pc' = [pc EXCEPT ![p] = "timedout"]
              /\ UNCHANGED wake
         ELSE /\ pc' = [pc EXCEPT ![p] = "sleep"]
              /\ wake' = [wake EXCEPT ![p] = now + PollSec]
    /\ UNCHANGED <<now, lockFile, marker, start, fd, prev, raised, nestedCalls, hist>>
    /\ UNCHANGED <<kind, scorer, call, matrix, loop, tuneVars>>

\* _script_common.py:131-133: raise TimeoutError, or sleep one poll
LockTimeoutCheck(p) ==
    /\ pc[p] = "timeout_check"
    /\ IF (now - start[p]) >= TimeoutSec
         THEN /\ pc' = [pc EXCEPT ![p] = "timedout"]
              /\ UNCHANGED wake
         ELSE /\ pc' = [pc EXCEPT ![p] = "sleep"]
              /\ wake' = [wake EXCEPT ![p] = now + PollSec]
    /\ UNCHANGED <<now, lockFile, marker, start, fd, prev, raised, nestedCalls, hist>>
    /\ UNCHANGED <<kind, scorer, call, matrix, loop, tuneVars>>

\* _script_common.py:133: time.sleep returns
LockWake(p) ==
    /\ pc[p] = "sleep"
    /\ now >= wake[p]
    /\ pc' = [pc EXCEPT ![p] = "create"]
    /\ wake' = [wake EXCEPT ![p] = 0]
    /\ UNCHANGED <<now, lockFile, marker, start, fd, prev, raised, nestedCalls, hist>>
    /\ UNCHANGED <<kind, scorer, call, matrix, loop, tuneVars>>

\* where the process goes on when a nested with statement is left normally
AfterNested(p) == IF kind[p] = "loop" THEN "t_post" ELSE "cs"

\* _script_common.py:111-112: the nested scope ends and nothing is released; an
\* exception of the nested body goes on into the body of the outer call
LockNestedReturn(p) ==
    /\ pc[p] = "nested_ret"
    /\ pc' = [pc EXCEPT ![p] = IF raised[p] THEN "release" ELSE AfterNested(p)]
    /\ UNCHANGED <<now, lockFile, marker, start, wake, fd, prev, raised, nestedCalls, hist>>
    /\ UNCHANGED <<kind, scorer, call, matrix, loop, tuneVars>>

\* where the process goes when the with statement is left
AfterRelease(p) ==
    IF raised[p] THEN "failed"
    ELSE IF kind[p] = "tune" THEN "t_post"
    ELSE IF kind[p] = "loop" THEN "l_end"
    ELSE "done"

\* the finally block popping the marker whatever prev is
LockRelease_PopMarker(p) ==
    /\ pc[p] = "release"
    /\ marker' = [marker EXCEPT ![p] = Unset]
    /\ fd' = [fd EXCEPT ![p] = FALSE]
    /\ lockFile' = NoFile
    /\ pc' = [pc EXCEPT ![p] = AfterRelease(p)]
    /\ UNCHANGED <<now, start, wake, prev, raised, nestedCalls, hist>>
    /\ UNCHANGED <<kind, scorer, call, matrix, loop, tuneVars>>

\* _script_common.py:139-151: finally: the marker goes back, the file is unlinked
LockRelease(p) ==
    /\ pc[p] = "release"
    /\ marker' = [marker EXCEPT ![p] = prev[p]]
    /\ fd' = [fd EXCEPT ![p] = FALSE]
    /\ lockFile' = NoFile
    /\ pc' = [pc EXCEPT ![p] = AfterRelease(p)]
    /\ UNCHANGED <<now, start, wake, prev, raised, nestedCalls, hist>>
    /\ UNCHANGED <<kind, scorer, call, matrix, loop, tuneVars>>

\* the body of the with statement: a nested call, the end, or an exception
BodyStep(p) ==
    /\ pc[p] = "cs"
    /\ \/ /\ nestedCalls[p] < MaxNested
          /\ pc' = [pc EXCEPT ![p] = "nested_call"]
          /\ nestedCalls' = [nestedCalls EXCEPT ![p] = @ + 1]
          /\ UNCHANGED raised
       \/ /\ pc' = [pc EXCEPT ![p] = "release"]
          /\ UNCHANGED <<raised, nestedCalls>>
       \/ /\ pc' = [pc EXCEPT ![p] = "release"]
          /\ raised' = [raised EXCEPT ![p] = TRUE]
          /\ UNCHANGED nestedCalls
    /\ UNCHANGED <<now, lockFile, marker, start, wake, fd, prev, hist>>
    /\ UNCHANGED <<kind, scorer, call, matrix, loop, tuneVars>>

\* the body of a nested with statement: its end, or an exception
NestedBodyStep(p) ==
    /\ pc[p] = "nested_cs"
    /\ pc' = [pc EXCEPT ![p] = "nested_ret"]
    /\ \/ UNCHANGED raised
       \/ raised' = [raised EXCEPT ![p] = TRUE]
    /\ UNCHANGED <<now, lockFile, marker, start, wake, fd, prev, nestedCalls, hist>>
    /\ UNCHANGED <<kind, scorer, call, matrix, loop, tuneVars>>

\* the clock
Tick ==
    /\ now < MaxTime
    /\ now' = now + 1
    /\ UNCHANGED <<lockFile, marker, pc, start, wake, fd, prev, raised, nestedCalls, hist>>
    /\ UNCHANGED <<kind, scorer, call, matrix, loop, tuneVars>>

--------------------------------------------------------------------------
(* tune_candidate_gate_trade_density.py: the candidates, the cache, the run *)

Stages == {"screen", "final"}
\* the metric bundle the matrix runner reports for one evaluation
Metrics == {0, 1}
\* the dataset files of a run
Datasets == <<"d1", "d2", "d3">>

\* the configuration file holds the base document and the tunable fields
BaseConfig == [base |-> "B", tunables |-> "original"]

\* tune_candidate_gate_trade_density.py:69-103 with 645-647: every tunable key
\* is overwritten by the combo's value
apply_candidate_combo_to_config(raw, combo) == [base |-> raw.base, tunables |-> combo.fp]

\* tune_candidate_gate_trade_density.py:493-510: the tunable keys are dropped
stable_base_config_hash(raw) == raw.base

\* tune_candidate_gate_trade_density.py:148-178, 199-232, 289-401: the
\* candidates before deduplication
legacy == <<[combo_id |-> "baseline_current", fp |-> "f0"]>>

\* lines 184-233: the grid of a diverse mode, numbered in the order of the loops
diverse(scenario_mode) ==
    IF scenario_mode = "diverse_light"
      THEN <<[combo_id |-> "scenario_diverse_light_000", fp |-> "f1"],
             [combo_id |-> "scenario_diverse_light_001", fp |-> "f2"]>>
      ELSE <<[combo_id |-> "scenario_diverse_wide_000", fp |-> "f5"],
             [combo_id |-> "scenario_diverse_wide_001", fp |-> "f6"],
             [combo_id |-> "scenario_diverse_wide_002", fp |-> "f7"]>>

\* lines 235-313: the profiles of quality_focus
quality_profiles ==
    <<[combo_id |-> "scenario_quality_focus_000", fp |-> "f1"],
      [combo_id |-> "scenario_quality_focus_001", fp |-> "f3"]>>

\* lines 317-401: the perturbations of the profiles, numbered on from them
perturbations == <<[combo_id |-> "scenario_quality_focus_002", fp |-> "f1"]>>

\* lines 183-401: the candidates a mode generates; quality_focus stops
\* perturbing as soon as it has target_count candidates (lines 318, 341);
\* target_count (line 314) is max_scenarios or, by default, the number of the
\* profiles and of all their perturbations (24 in the script: 4 profiles
\* with 5 perturbations each)
generated(scenario_mode, max_scenarios) ==
    IF scenario_mode \in {"diverse_light", "diverse_wide"} THEN diverse(scenario_mode)
    ELSE IF scenario_mode = "quality_focus"
      THEN LET target_count == IF max_scenarios > 0 THEN max_scenarios
                               ELSE Len(quality_profiles) + Len(perturbations)
               more == target_count - Len(quality_profiles)
           IN  IF more <= 0 THEN quality_profiles
               ELSE IF more >= Len(perturbations) THEN quality_profiles \o perturbations
               ELSE quality_profiles \o SubSeq(perturbations, 1, more)
    ELSE <<>>

\* tune_candidate_gate_trade_density.py:430-459
combo_fingerprint(combo) == combo.fp

\* the loop of lines 465-470 without the test of line 467
dedupe_combos_KeepAll(combos) == combos

\* tune_candidate_gate_trade_density.py:462-471
RECURSIVE DedupeFrom(_, _, _)
DedupeFrom(combos, seen, unique) ==
    IF combos = <<>> THEN unique
    ELSE LET fp == combo_fingerprint(Head(combos)) IN
         IF fp \in seen
           THEN DedupeFrom(Tail(combos), seen, unique)
           ELSE DedupeFrom(Tail(combos), seen \cup {fp}, Append(unique, Head(combos)))

dedupe_combos(combos) == DedupeFrom(combos, {}, <<>>)

\* tune_candidate_gate_trade_density.py:147, 179-180, 402-408
build_combo_specs(scenario_mode, include_legacy, max_scenarios) ==
    LET combos == IF scenario_mode = "legacy_only" THEN legacy
                  ELSE IF include_legacy
                    THEN legacy \o generated(scenario_mode, max_scenarios)
                  ELSE generated(scenario_mode, max_scenarios)
        unique == dedupe_combos(combos)
    IN  IF max_scenarios > 0 /\ Len(unique) > max_scenarios
          THEN SubSeq(unique, 1, max_scenarios)
          ELSE unique

\* Python's round(): to the nearest integer, a tie to the even one
RoundHalfEven(a, b) ==
    LET q == a \div b
        r == a % b
    IN  IF 2 * r < b THEN q
        ELSE IF 2 * r > b THEN q + 1
        ELSE IF q % 2 = 0 THEN q ELSE q + 1

\* the indices in descending order, as sorted(..., reverse=True) gives them
RECURSIVE Ascending_Reversed(_)
Ascending_Reversed(S) ==
    IF S = {} THEN <<>>
    ELSE LET hi == CHOOSE x \in S : \A y \in S : x >= y
         IN  <<hi>> \o Ascending_Reversed(S \ {hi})

\* sorted() of lines 417 and 426
RECURSIVE Ascending(_)
Ascending(S) ==
    IF S = {} THEN <<>>
    ELSE LET lo == CHOOSE x \in S : \A y \in S : x <= y
         IN  <<lo>> \o Ascending(S \ {lo})

\* tune_candidate_gate_trade_density.py:411-427 (indices from 0)
select_evenly_spaced_datasets(datasets, limit) ==
    LET n == Len(datasets) IN
    IF limit <= 0 \/ n <= limit THEN datasets
    ELSE IF limit = 1 THEN <<datasets[(n \div 2) + 1]>>
    ELSE LET spaced == {RoundHalfEven(i * (n - 1), limit - 1) : i \in 0..(limit - 1)}
             unused == Ascending((0..(n - 1)) \ spaced)
             short == limit - Cardinality(spaced)
             fill == IF short > 0 THEN {unused[k] : k \in 1..short} ELSE {}
             indices == Ascending(spaced \cup fill)
         IN  [k \in 1..Len(indices) |-> datasets[indices[k] + 1]]

\* the arguments of the tuning runs of the model
TuneArgs ==
    [scenario_mode : {"diverse_light"}, include_legacy : {FALSE}, max_scenarios : {0},
     screen_dataset_limit : {0, 2}, screen_top_k : {1}, cache_enabled : {TRUE}]
ConcurrentArgs ==
    [scenario_mode : {"legacy_only"}, include_legacy : {FALSE}, max_scenarios : {0},
     screen_dataset_limit : {0}, screen_top_k : {1}, cache_enabled : {TRUE}]

NoRow == [combo_id |-> "", stage |-> "", metrics |-> 0, from_cache |-> FALSE]

\* the five metrics of a row and the four floors, in units of 0.0001
NoMetrics == [avg_profit_factor |-> 0, avg_expectancy_krw |-> 0, profitable_ratio |-> 0,
              avg_total_trades |-> 0, avg_win_rate_pct |-> 0]
NoThresholds == [min_avg_trades |-> 0, min_profitable_ratio |-> 0,
                 min_avg_win_rate_pct |-> 0, min_expectancy_krw |-> 0]
NoScore == [done |-> FALSE, objective_mode |-> "balanced", thresholds |-> NoThresholds,
            a |-> NoMetrics, b |-> NoMetrics,
            a_combo |-> 0, b_combo |-> 0, a_loop |-> 0, b_loop |-> 0]
\* no call of a pure function of the tuning script is being made
NoCall == [fn |-> "none", done |-> FALSE, scenario_mode |-> "legacy_only",
           include_legacy |-> FALSE, max_scenarios |-> 0, combos |-> <<>>,
           datasets |-> <<>>, limit |-> 0, result |-> <<>>, again |-> <<>>]
\* no run of the matrix runner is being made
NoMatrix == [pc |-> "idle", profile_specs |-> <<>>, dataset_paths |-> {}, cpu_count |-> 1,
             include_walk_forward |-> FALSE, original_config_raw |-> BaseConfig,
             idx |-> 0, worker |-> <<>>, collected |-> {}, profile_rows |-> {},
             rows |-> {}, raised |-> FALSE, csv |-> FALSE, report |-> FALSE]
NoEntries == [k \in {} |-> NoRow]
\* a value of the entries object that is not itself a JSON object (null, a
\* number, a string, a list): load_eval_cache does not look at the values
NullEntry == [combo_id |-> "", stage |-> "null", metrics |-> 0, from_cache |-> FALSE]
NoArgs == [scenario_mode |-> "legacy_only", include_legacy |-> FALSE, max_scenarios |-> 0,
           screen_dataset_limit |-> 0, screen_top_k |-> 1, cache_enabled |-> FALSE]
AbsentCache == [state |-> "absent", entries |-> NoEntries]
\* a file that is not JSON, or not an object, or whose "entries" is no object
MalformedCache == [state |-> "malformed", entries |-> NoEntries]

NoTune == [args |-> NoArgs, original_build_raw |-> BaseConfig, entries |-> NoEntries,
           stage |-> "screen", idx |-> 0, screen_rows |-> <<>>, rows |-> <<>>,
           combos_for_final |-> <<>>, invocations |-> 0, summary |-> FALSE,
           returned |-> NoRow]

\* tune_candidate_gate_trade_density.py:857
combo_specs(p) ==
    build_combo_specs(tune[p].args.scenario_mode, tune[p].args.include_legacy,
                      tune[p].args.max_scenarios)

\* tune_candidate_gate_trade_density.py:872-875
screen_datasets(p) == select_evenly_spaced_datasets(Datasets, tune[p].args.screen_dataset_limit)
do_screening(p) ==
    tune[p].args.screen_dataset_limit > 0 /\ Len(screen_datasets(p)) < Len(Datasets)

\* the combos the current stage goes through
StageCombos(p) == IF tune[p].stage = "screen" THEN combo_specs(p) ELSE tune[p].combos_for_final
CurrentCombo(p) == StageCombos(p)[tune[p].idx + 1]

\* tune_candidate_gate_trade_density.py:618-633 with the arguments of 892-911, 959-978
cache_key(p, combo, stage_name) ==
    [base_config_hash |-> stable_base_config_hash(tune[p].original_build_raw),
     combo_fingerprint |-> combo_fingerprint(combo),
     stage_name |-> stage_name,
     datasets_sig_hash |-> IF stage_name = "screen" /\ do_screening(p)
                             THEN screen_datasets(p) ELSE Datasets]

\* tune_candidate_gate_trade_density.py:637-640: the three files of the cached row
ArtifactsExist(row) == <<row.combo_id, row.stage>> \in artifacts

\* tune_candidate_gate_trade_density.py:513-522
load_eval_cache(doc) == IF doc.state = "ok" THEN doc.entries ELSE NoEntries

Put(entries, key, row) ==
    [k \in (DOMAIN entries) \cup {key} |-> IF k = key THEN row ELSE entries[k]]
Pop(entries, key) == [k \in (DOMAIN entries) \ {key} |-> entries[k]]

\* tune_candidate_gate_trade_density.py:912-936, 979-1002: the row joins the
\* rows of its stage and the loop goes to the next combo
WithRow(t, row) ==
    IF t.stage = "screen"
      THEN [t EXCEPT !.screen_rows = Append(@, row), !.idx = @ + 1, !.returned = row]
      ELSE [t EXCEPT !.rows = Append(@, row), !.idx = @ + 1, !.returned = row]

\* run_candidate_auto_improvement_loop.py:373-382: the locals of the loop
NoCombo == [combo_id |-> "", fp |-> ""]
NoSnapshot == [objective_score |-> 0, pass |-> FALSE]
NegInf == 0 - 1
NoLoopArgs == [max_iterations |-> 0, max_consecutive_no_improvement |-> 1,
               skip_tune_phase |-> FALSE, max_runtime_minutes |-> 1,
               improvement_epsilon |-> 0, run_loss_analysis |-> FALSE]
NoLoop == [args |-> NoLoopArgs, iteration |-> 0, status |-> "running", rows |-> <<>>,
           started_at |-> 0, best_objective |-> NegInf, best_combo_id |-> "",
           last_applied_combo |-> NoCombo, consecutive_no_improve |-> 0,
           snapshot |-> NoSnapshot, post_snapshot |-> NoSnapshot,
           best_combo |-> NoCombo, skip_post_apply_run |-> FALSE,
           pre_run |-> BaseConfig, same_metrics |-> {}]

\* the process is not running
Resting(p) == pc[p] \in {"idle", "done", "failed", "timedout"}

\* tune_candidate_gate_trade_density.py:741, 830-861: a tuning run is started as a
\* process of its own, with its arguments
TuneStart(p) ==
    /\ Resting(p)
    /\ plan[p] # <<>>
    /\ tune' = [tune EXCEPT ![p] = [NoTune EXCEPT !.args = Head(plan[p])]]
    /\ plan' = [plan EXCEPT ![p] = Tail(@)]
    /\ pc' = [pc EXCEPT ![p] = "t_read"]
    /\ raised' = [raised EXCEPT ![p] = FALSE]
    /\ hist' = [hist EXCEPT ![p] = NoHist]
    /\ UNCHANGED <<now, lockFile, marker, start, wake, fd, prev, nestedCalls>>
    /\ UNCHANGED <<kind, scorer, call, matrix, loop, configFile, cacheFile, artifacts>>

\* tune_candidate_gate_trade_density.py:862-863
TuneReadConfig(p) ==
    /\ pc[p] = "t_read"
    /\ tune' = [tune EXCEPT ![p].original_build_raw = configFile]
    /\ pc' = [pc EXCEPT ![p] = "t_load"]
    /\ UNCHANGED <<now, lockFile, marker, start, wake, fd, prev, raised, nestedCalls, hist>>
    /\ UNCHANGED <<kind, scorer, call, matrix, loop, configFile, cacheFile, artifacts, plan>>

\* tune_candidate_gate_trade_density.py:864
TuneLoadCache(p) ==
    /\ pc[p] = "t_load"
    /\ tune' = [tune EXCEPT ![p].entries =
                  IF tune[p].args.cache_enabled THEN load_eval_cache(cacheFile) ELSE NoEntries]
    /\ pc' = [pc EXCEPT ![p] = "call"]
    /\ UNCHANGED <<now, lockFile, marker, start, wake, fd, prev, raised, nestedCalls, hist>>
    /\ UNCHANGED <<kind, scorer, call, matrix, loop, configFile, cacheFile, artifacts, plan>>

\* the lookup of lines 634-643 without the test of line 640: an entry is
\* returned whether its files exist or not
TuneLookup_NoArtifactCheck(p) ==
    /\ pc[p] = BodyPc(p) /\ kind[p] # "body"
    /\ tune[p].idx < Len(StageCombos(p))
    /\ LET t == tune[p]
           key == cache_key(p, CurrentCombo(p), t.stage)
       IN  IF t.args.cache_enabled /\ key \in DOMAIN t.entries
             THEN /\ tune' = [tune EXCEPT ![p] =
                                WithRow(t, [t.entries[key] EXCEPT !.from_cache = TRUE])]
                  /\ UNCHANGED pc
             ELSE /\ pc' = [pc EXCEPT ![p] = "t_write"]
                  /\ UNCHANGED tune
    /\ UNCHANGED <<now, lockFile, marker, start, wake, fd, prev, raised, nestedCalls, hist>>
    /\ UNCHANGED <<kind, scorer, call, matrix, loop, configFile, cacheFile, artifacts, plan>>

\* the lookup of lines 634-643 without the return of line 642
TuneLookup_NoReturn(p) ==
    /\ pc[p] = BodyPc(p) /\ kind[p] # "body"
    /\ tune[p].idx < Len(StageCombos(p))
    /\ LET t == tune[p]
           key == cache_key(p, CurrentCombo(p), t.stage)
       IN  IF t.args.cache_enabled /\ key \in DOMAIN t.entries /\ ~ArtifactsExist(t.entries[key])
             THEN tune' = [tune EXCEPT ![p].entries = Pop(t.entries, key)]
             ELSE UNCHANGED tune
    /\ pc' = [pc EXCEPT ![p] = "t_write"]
    /\ UNCHANGED <<now, lockFile, marker, start, wake, fd, prev, raised, nestedCalls, hist>>
    /\ UNCHANGED <<kind, scorer, call, matrix, loop, configFile, cacheFile, artifacts, plan>>

\* tune_candidate_gate_trade_density.py:890-911, 957-978 and 634-643: the next
\* combo of the stage, looked up in the cache
TuneLookup(p) ==
    /\ pc[p] = BodyPc(p) /\ kind[p] # "body"
    /\ tune[p].idx < Len(StageCombos(p))
    /\ LET t == tune[p]
           key == cache_key(p, CurrentCombo(p), t.stage)
       IN  IF t.args.cache_enabled /\ key \in DOMAIN t.entries
             THEN IF t.entries[key] = NullEntry
                    \* line 637: cached.get on a value that has no get (AttributeError)
                    THEN /\ raised' = [raised EXCEPT ![p] = TRUE]
                         /\ pc' = [pc EXCEPT ![p] = "t_finally"]
                         /\ UNCHANGED tune
                    ELSE IF ArtifactsExist(t.entries[key])
                      THEN /\ tune' = [tune EXCEPT ![p] =
                                         WithRow(t, [t.entries[key] EXCEPT !.from_cache = TRUE])]
                           /\ UNCHANGED <<pc, raised>>
                      ELSE /\ tune' = [tune EXCEPT ![p].entries = Pop(t.entries, key)]
                           /\ pc' = [pc EXCEPT ![p] = "t_write"]
                           /\ UNCHANGED raised
             ELSE /\ pc' = [pc EXCEPT ![p] = "t_write"]
                  /\ UNCHANGED <<tune, raised>>
    /\ UNCHANGED <<now, lockFile, marker, start, wake, fd, prev, nestedCalls, hist>>
    /\ UNCHANGED <<kind, scorer, call, matrix, loop, configFile, cacheFile, artifacts, plan>>

\* tune_candidate_gate_trade_density.py:645-647
TuneWriteConfig(p) ==
    /\ pc[p] = "t_write"
    /\ configFile' = apply_candidate_combo_to_config(tune[p].original_build_raw, CurrentCombo(p))
    /\ pc' = [pc EXCEPT ![p] = "t_run"]
    /\ UNCHANGED <<now, lockFile, marker, start, wake, fd, prev, raised, nestedCalls, hist>>
    /\ UNCHANGED <<kind, scorer, call, matrix, loop, cacheFile, artifacts, tune, plan>>

\* the call of lines 649-689 with a failure that drops the candidate: no row
\* is returned for it and the stage goes on with the next one
TuneRunMatrix_DropFailed(p) ==
    /\ pc[p] = "t_run"
    /\ LET t == tune[p]
           combo == CurrentCombo(p)
           key == cache_key(p, combo, t.stage)
       IN  \/ /\ tune' = [tune EXCEPT ![p].invocations = @ + 1, ![p].idx = @ + 1]
              /\ pc' = [pc EXCEPT ![p] = BodyPc(p)]
              /\ UNCHANGED <<artifacts, raised>>
           \/ \E m \in Metrics :
                LET row == [combo_id |-> combo.combo_id, stage |-> t.stage,
                            metrics |-> m, from_cache |-> FALSE]
                    stored == IF t.args.cache_enabled THEN Put(t.entries, key, row)
                              ELSE t.entries
                IN  /\ tune' = [tune EXCEPT ![p] =
                                  WithRow([t EXCEPT !.entries = stored,
                                                    !.invocations = @ + 1], row)]
                    /\ artifacts' = artifacts \cup {<<combo.combo_id, t.stage>>}
                    /\ pc' = [pc EXCEPT ![p] = BodyPc(p)]
                    /\ UNCHANGED raised
    /\ UNCHANGED <<now, lockFile, marker, start, wake, fd, prev, nestedCalls, hist>>
    /\ UNCHANGED <<kind, scorer, call, matrix, loop, configFile, cacheFile, plan>>

\* tune_candidate_gate_trade_density.py:649-738: the matrix runner is run (it
\* leaves the configuration file as it found it); a failure raises
TuneRunMatrix(p) ==
    /\ pc[p] = "t_run"
    /\ LET t == tune[p]
           combo == CurrentCombo(p)
           key == cache_key(p, combo, t.stage)
       IN  \/ /\ tune' = [tune EXCEPT ![p].invocations = @ + 1]
              /\ raised' = [raised EXCEPT ![p] = TRUE]
              /\ pc' = [pc EXCEPT ![p] = "t_finally"]
              /\ UNCHANGED artifacts
           \/ \E m \in Metrics :
                LET row == [combo_id |-> combo.combo_id, stage |-> t.stage,
                            metrics |-> m, from_cache |-> FALSE]
                    stored == IF t.args.cache_enabled THEN Put(t.entries, key, row)
                              ELSE t.entries
                IN  /\ tune' = [tune EXCEPT ![p] =
                                  WithRow([t EXCEPT !.entries = stored,
                                                    !.invocations = @ + 1], row)]
                    /\ artifacts' = artifacts \cup {<<combo.combo_id, t.stage>>}
                    /\ pc' = [pc EXCEPT ![p] = BodyPc(p)]
                    /\ UNCHANGED raised
    /\ UNCHANGED <<now, lockFile, marker, start, wake, fd, prev, nestedCalls, hist>>
    /\ UNCHANGED <<kind, scorer, call, matrix, loop, configFile, cacheFile, plan>>

\* the sort key of tune_candidate_gate_trade_density.py:942-949
RankKey(row) == row.metrics

\* sorted(..., reverse=True): descending, rows of equal key in their order
RECURSIVE SortedDesc(_)
SortedDesc(rows) ==
    IF rows = <<>> THEN <<>>
    ELSE LET best == CHOOSE i \in 1..Len(rows) :
                       /\ \A j \in 1..Len(rows) : RankKey(rows[j]) <= RankKey(rows[i])
                       /\ \A j \in 1..(i - 1) : RankKey(rows[j]) < RankKey(rows[i])
             rest == [k \in 1..(Len(rows) - 1) |-> IF k < best THEN rows[k] ELSE rows[k + 1]]
         IN  <<rows[best]>> \o SortedDesc(rest)

Max(a, b) == IF a >= b THEN a ELSE b
Min(a, b) == IF a <= b THEN a ELSE b

\* tune_candidate_gate_trade_density.py:938-952
selected_combo_ids(p) ==
    IF do_screening(p)
      THEN LET screen_sorted == SortedDesc(tune[p].screen_rows)
               k == Min(Len(screen_sorted), Max(1, tune[p].args.screen_top_k))
           IN  {screen_sorted[i].combo_id : i \in 1..k}
      ELSE {combo_specs(p)[i].combo_id : i \in 1..Len(combo_specs(p))}

SelectSeqBy(seq, S) ==
    LET F[i \in 0..Len(seq)] ==
          IF i = 0 THEN <<>>
          ELSE IF seq[i].combo_id \in S THEN Append(F[i - 1], seq[i]) ELSE F[i - 1]
    IN  F[Len(seq)]

\* tune_candidate_gate_trade_density.py:938-956: the screen loop is over
TuneSelect(p) ==
    /\ pc[p] = BodyPc(p) /\ kind[p] # "body"
    /\ tune[p].stage = "screen"
    /\ tune[p].idx = Len(combo_specs(p))
    /\ tune' = [tune EXCEPT ![p].stage = "final", ![p].idx = 0,
                            ![p].combos_for_final =
                                SelectSeqBy(combo_specs(p), selected_combo_ids(p))]
    /\ UNCHANGED <<now, lockFile, marker, pc, start, wake, fd, prev, raised, nestedCalls, hist>>
    /\ UNCHANGED <<kind, scorer, call, matrix, loop, configFile, cacheFile, artifacts, plan>>

\* tune_candidate_gate_trade_density.py:957, 1003: the final loop is over
TuneBodyEnd(p) ==
    /\ pc[p] = BodyPc(p) /\ kind[p] # "body"
    /\ tune[p].stage = "final"
    /\ tune[p].idx = Len(tune[p].combos_for_final)
    /\ pc' = [pc EXCEPT ![p] = "t_finally"]
    /\ UNCHANGED <<now, lockFile, marker, start, wake, fd, prev, raised, nestedCalls, hist>>
    /\ UNCHANGED <<kind, scorer, call, matrix, loop, tuneVars>>

\* where the with statement of the tuning run is left
AfterBody(p) == IF kind[p] = "loop" THEN "nested_ret" ELSE "release"

\* the write of line 1004 in the normal path only, not in a finally block
TuneFinally_NotOnRaise(p) ==
    /\ pc[p] = "t_finally"
    /\ configFile' = IF raised[p] THEN configFile ELSE tune[p].original_build_raw
    /\ pc' = [pc EXCEPT ![p] = AfterBody(p)]
    /\ UNCHANGED <<now, lockFile, marker, start, wake, fd, prev, raised, nestedCalls, hist>>
    /\ UNCHANGED <<kind, scorer, call, matrix, loop, cacheFile, artifacts, tune, plan>>

\* tune_candidate_gate_trade_density.py:1003-1004
TuneFinally(p) ==
    /\ pc[p] = "t_finally"
    /\ configFile' = tune[p].original_build_raw
    /\ pc' = [pc EXCEPT ![p] = AfterBody(p)]
    /\ UNCHANGED <<now, lockFile, marker, start, wake, fd, prev, raised, nestedCalls, hist>>
    /\ UNCHANGED <<kind, scorer, call, matrix, loop, cacheFile, artifacts, tune, plan>>

\* tune_candidate_gate_trade_density.py:1006-1057
TuneSummary(p) ==
    /\ pc[p] = "t_post"
    /\ IF tune[p].rows = <<>>
         THEN /\ pc' = [pc EXCEPT ![p] = IF kind[p] = "loop" THEN "release" ELSE "failed"]
              /\ raised' = [raised EXCEPT ![p] = TRUE]
              /\ UNCHANGED tune
         ELSE /\ pc' = [pc EXCEPT ![p] = "t_save"]
              /\ tune' = [tune EXCEPT ![p].summary = TRUE]
              /\ UNCHANGED raised
    /\ UNCHANGED <<now, lockFile, marker, start, wake, fd, prev, nestedCalls, hist>>
    /\ UNCHANGED <<kind, scorer, call, matrix, loop, configFile, cacheFile, artifacts, plan>>

\* tune_candidate_gate_trade_density.py:1058-1065 with 525-527
TuneSaveCache(p) ==
    /\ pc[p] = "t_save"
    /\ cacheFile' = IF tune[p].args.cache_enabled
                      THEN [state |-> "ok", entries |-> tune[p].entries]
                      ELSE cacheFile
    /\ pc' = [pc EXCEPT ![p] = IF kind[p] = "loop" THEN "l_select" ELSE "done"]
    /\ UNCHANGED <<now, lockFile, marker, start, wake, fd, prev, raised, nestedCalls, hist>>
    /\ UNCHANGED <<kind, scorer, call, matrix, loop, configFile, artifacts, tune, plan>>

\* the rows of the cache file whose report files are gone
Dangling == {k \in DOMAIN cacheFile.entries :
                cacheFile.entries[k] # NullEntry /\ ~ArtifactsExist(cacheFile.entries[k])}

\* a report file of an earlier evaluation is deleted from the output directory.
\* A run reads the files of a combo only before it evaluates that combo, so a
\* deletion during a run acts as one before it or one after it: the model
\* deletes between runs only, and only while a run is still to come.
DeleteArtifact ==
    /\ \A p \in Procs : Resting(p) \/ pc[p] = "l_tune"
    /\ \E p \in Procs : plan[p] # <<>> \/ pc[p] = "l_tune"
    /\ Cardinality(Dangling) < MaxDangling
    /\ \E a \in artifacts : artifacts' = artifacts \ {a}
    /\ UNCHANGED <<lockVars, kind, scorer, call, matrix, loop, configFile, cacheFile, tune, plan>>

\* the state every run of tuning processes starts from
InitFiles ==
    /\ now = 0
    /\ lockFile \in {NoFile, DeadFile}
    /\ marker = [p \in Procs |-> Unset]
    /\ pc = [p \in Procs |-> "idle"]
    /\ start = [p \in Procs |-> 0]
    /\ wake = [p \in Procs |-> 0]
    /\ fd = [p \in Procs |-> FALSE]
    /\ prev = [p \in Procs |-> Unset]
    /\ raised = [p \in Procs |-> FALSE]
    /\ nestedCalls = [p \in Procs |-> 0]
    /\ hist = [p \in Procs |-> NoHist]
    /\ configFile = BaseConfig
    /\ cacheFile = AbsentCache
    /\ artifacts = {}
    /\ tune = [p \in Procs |-> NoTune]
    /\ loop = [p \in Procs |-> NoLoop]
    /\ scorer = NoScore
    /\ call = NoCall
    /\ matrix = NoMatrix

\* two stand-alone tuning runs, started at any time
InitTune ==
    /\ InitFiles
    /\ kind = [p \in Procs |-> "tune"]
    /\ plan \in [Procs -> {<<a>> : a \in ConcurrentArgs}]

\* one process after the other: the runs of p1, each with its arguments
InitRun ==
    /\ InitFiles
    /\ kind = [p \in Procs |-> "tune"]
    /\ \E a, b \in TuneArgs : plan = [p \in Procs |-> IF p = "p1" THEN <<a, b>> ELSE <<>>]

NextTune ==
    \/ Tick
    \/ DeleteArtifact
    \/ \E p \in Procs :
          \/ LockEnter(p)
          \/ LockTryCreate(p)
          \/ LockStat(p)
          \/ LockUnlinkStale(p)
          \/ LockTimeoutCheck(p)
          \/ LockWake(p)
          \/ LockRelease(p)
          \/ TuneStart(p)
          \/ TuneReadConfig(p)
          \/ TuneLoadCache(p)
          \/ TuneLookup(p)
          \/ TuneWriteConfig(p)
          \/ TuneRunMatrix(p)
          \/ TuneSelect(p)
          \/ TuneBodyEnd(p)
          \/ TuneFinally(p)
          \/ TuneSummary(p)
          \/ TuneSaveCache(p)

SpecRun == InitRun /\ [][NextTune]_vars

SpecTune == InitTune /\ [][NextTune]_vars

\* the arguments of the runs of the funnel: both scenario modes, whose first
\* candidates have one fingerprint, and every top-K up to the candidate count
FunnelArgs ==
    [scenario_mode : {"diverse_light", "quality_focus"}, include_legacy : {FALSE},
     max_scenarios : {0}, screen_dataset_limit : {2}, screen_top_k : {1, 2},
     cache_enabled : {TRUE}]

\* two runs of p1 with screening on, the first with no cache file
InitFunnel ==
    /\ InitFiles
    /\ kind = [p \in Procs |-> "tune"]
    /\ \E a, b \in FunnelArgs : plan = [p \in Procs |-> IF p = "p1" THEN <<a, b>> ELSE <<>>]

SpecFunnel == InitFunnel /\ [][NextTune]_vars

\* the key the first lookup of a run without screening uses (lines 618-633)
FirstKey ==
    [base_config_hash |-> stable_base_config_hash(BaseConfig),
     combo_fingerprint |-> combo_fingerprint(build_combo_specs("diverse_light", FALSE, 0)[1]),
     stage_name |-> "screen",
     datasets_sig_hash |-> Datasets]
\* a key written under another base configuration: no lookup of a run uses it
StaleKey == [FirstKey EXCEPT !.base_config_hash = "stale"]
FirstRow == [combo_id |-> build_combo_specs("diverse_light", FALSE, 0)[1].combo_id,
             stage |-> "screen", metrics |-> 1, from_cache |-> FALSE]

\* the cache files a run can find: none, an unreadable one, a document of an
\* older context, a document with a value that is no object, and a good one
CacheDocs ==
    {AbsentCache, MalformedCache,
     [state |-> "ok", entries |-> Put(NoEntries, StaleKey, FirstRow)],
     [state |-> "ok", entries |-> Put(NoEntries, FirstKey, NullEntry)],
     [state |-> "ok", entries |-> Put(NoEntries, FirstKey, FirstRow)]}

\* one run of p1 that finds a cache file and the report files of an earlier run
InitCache ==
    /\ now = 0
    /\ lockFile \in {NoFile, DeadFile}
    /\ marker = [p \in Procs |-> Unset]
    /\ pc = [p \in Procs |-> "idle"]
    /\ start = [p \in Procs |-> 0]
    /\ wake = [p \in Procs |-> 0]
    /\ fd = [p \in Procs |-> FALSE]
    /\ prev = [p \in Procs |-> Unset]
    /\ raised = [p \in Procs |-> FALSE]
    /\ nestedCalls = [p \in Procs |-> 0]
    /\ hist = [p \in Procs |-> NoHist]
    /\ configFile = BaseConfig
    /\ cacheFile \in CacheDocs
    /\ artifacts = {<<FirstRow.combo_id, FirstRow.stage>>}
    /\ tune = [p \in Procs |-> NoTune]
    /\ loop = [p \in Procs |-> NoLoop]
    /\ scorer = NoScore
    /\ call = NoCall
    /\ matrix = NoMatrix
    /\ kind = [p \in Procs |-> "tune"]
    /\ \E a \in TuneArgs : plan = [p \in Procs |-> IF p = "p1" THEN <<a>> ELSE <<>>]

SpecCache == InitCache /\ [][NextTune]_vars

--------------------------------------------------------------------------
(* run_candidate_auto_improvement_loop.py: main *)

\* iterations a loop run is allowed at most
MaxIterations == 2

\* the objective scores a validation run can report
Scores == {0, 1}
\* what get_core_snapshot and target_satisfied give for one validation run:
\* the objective score, and whether target and overall gate both passed
Snapshots == [objective_score : Scores, pass : BOOLEAN]

\* the arguments of the loop runs of the model
LoopArgs ==
    [max_iterations : 0..MaxIterations, max_consecutive_no_improvement : {0, 1, 2},
     skip_tune_phase : BOOLEAN, max_runtime_minutes : {1, MaxTime + 1},
     improvement_epsilon : {0}, run_loss_analysis : {TRUE}]

\* the arguments of the loop runs that find a lock file: the defaults of the
\* limit and the tune phase, one iteration, a budget that is not reached
LoopArgsAfterWait ==
    {a \in LoopArgs : /\ a.max_iterations = 1
                      /\ a.max_consecutive_no_improvement = 2
                      /\ ~a.skip_tune_phase
                      /\ a.max_runtime_minutes = MaxTime + 1}

\* run_candidate_auto_improvement_loop.py:534-575: the arguments of the nested
\* tuning run
LoopTuneArgs ==
    [scenario_mode |-> "diverse_light", include_legacy |-> FALSE, max_scenarios |-> 0,
     screen_dataset_limit |-> 2, screen_top_k |-> 1, cache_enabled |-> TRUE]

\* run_candidate_auto_improvement_loop.py:233-272
apply_combo_to_config_object(config_obj, combo) ==
    [base |-> config_obj.base, tunables |-> combo.fp]

\* run_candidate_auto_improvement_loop.py:285-358: the first row of the summary
\* in descending order of objective whose combo_id is one of the run's combos
select_best_combo_from_tune_summary(p) ==
    LET ids == {combo_specs(p)[i].combo_id : i \in 1..Len(combo_specs(p))}
        candidates == SortedDesc(SelectSeqBy(SortedDesc(tune[p].rows), ids))
    IN  IF candidates = <<>> THEN NoCombo
        ELSE LET id == candidates[1].combo_id
             IN  combo_specs(p)[CHOOSE i \in 1..Len(combo_specs(p)) :
                                    combo_specs(p)[i].combo_id = id]

\* run_candidate_auto_improvement_loop.py:509-515, 662-668
Improves(score, l) ==
    l.best_objective = NegInf \/ score > l.best_objective + l.args.improvement_epsilon

\* the step of lines 409-414 without the test of line 411: the iteration
\* starts whatever time has passed
LoopIterate_NoRuntimeCheck(p) ==
    /\ pc[p] = "cs"
    /\ kind[p] = "loop"
    /\ LET l == loop[p] IN
       IF l.iteration >= l.args.max_iterations
         THEN /\ pc' = [pc EXCEPT ![p] = "release"]
              /\ UNCHANGED loop
         ELSE /\ pc' = [pc EXCEPT ![p] = "l_baseline"]
              /\ loop' = [loop EXCEPT ![p].iteration = @ + 1]
    /\ UNCHANGED <<now, lockFile, marker, start, wake, fd, prev, raised, nestedCalls, hist>>
    /\ UNCHANGED <<kind, scorer, call, matrix, tuneVars>>

\* run_candidate_auto_improvement_loop.py:409-414: the next iteration, or the
\* end of the range, or the runtime limit
LoopIterate(p) ==
    /\ pc[p] = "cs"
    /\ kind[p] = "loop"
    /\ LET l == loop[p] IN
       IF l.iteration >= l.args.max_iterations
         THEN /\ pc' = [pc EXCEPT ![p] = "release"]
              /\ UNCHANGED loop
         ELSE IF (now - l.started_at) >= l.args.max_runtime_minutes
           THEN /\ pc' = [pc EXCEPT ![p] = "release"]
                /\ loop' = [loop EXCEPT ![p].iteration = @ + 1,
                                        ![p].status = "paused_runtime_limit"]
           ELSE /\ pc' = [pc EXCEPT ![p] = "l_baseline"]
                /\ loop' = [loop EXCEPT ![p].iteration = @ + 1]
    /\ UNCHANGED <<now, lockFile, marker, start, wake, fd, prev, raised, nestedCalls, hist>>
    /\ UNCHANGED <<kind, scorer, call, matrix, tuneVars>>

\* what the validation runs of the loop have returned so far: nothing yet, one
\* and the same snapshot every time, or differing ones (then all of Snapshots)
Observed(seen, snap) == IF seen \subseteq {snap} THEN {snap} ELSE Snapshots

\* run_candidate_auto_improvement_loop.py:416-507: the baseline run (it leaves
\* the configuration file as it found it); a failure raises
LoopBaseline(p) ==
    /\ pc[p] = "l_baseline"
    /\ \/ /\ raised' = [raised EXCEPT ![p] = TRUE]
          /\ pc' = [pc EXCEPT ![p] = "release"]
          /\ UNCHANGED loop
       \/ \E snap \in Snapshots :
             /\ loop' = [loop EXCEPT ![p].snapshot = snap,
                                     ![p].rows = Append(@, "baseline"),
                                     ![p].same_metrics = Observed(@, snap)]
             /\ pc' = [pc EXCEPT ![p] = "l_judge"]
             /\ UNCHANGED raised
    /\ UNCHANGED <<now, lockFile, marker, start, wake, fd, prev, nestedCalls, hist>>
    /\ UNCHANGED <<kind, scorer, call, matrix, tuneVars>>

\* the update of lines 509-515, 662-668 without the else branch: a run that
\* does not improve the best objective is not counted
Scored_NoCount(l, snap, combo_id) ==
    IF Improves(snap.objective_score, l)
      THEN [l EXCEPT !.best_objective = snap.objective_score,
                     !.best_combo_id = combo_id,
                     !.consecutive_no_improve = 0]
      ELSE l

\* the update of lines 509-515, 662-668 that takes every score as the best one
Scored_KeepLatest(l, snap, combo_id) ==
    [l EXCEPT !.best_objective = snap.objective_score,
              !.best_combo_id = combo_id,
              !.consecutive_no_improve = IF Improves(snap.objective_score, l) THEN 0 ELSE @ + 1]

\* run_candidate_auto_improvement_loop.py:509-515, 662-668: the best objective
\* and the count of runs without improvement
Scored(l, snap, combo_id) ==
    IF Improves(snap.objective_score, l)
      THEN [l EXCEPT !.best_objective = snap.objective_score,
                     !.best_combo_id = combo_id,
                     !.consecutive_no_improve = 0]
      ELSE [l EXCEPT !.consecutive_no_improve = @ + 1]

\* the locals of one iteration are dead when the iteration is over
IterationOver(l) ==
    [l EXCEPT !.snapshot = NoSnapshot, !.post_snapshot = NoSnapshot,
              !.best_combo = NoCombo, !.skip_post_apply_run = FALSE]

\* the steps of lines 509-533 without the test of lines 517-520: a baseline
\* that passes does not end the loop
LoopJudge_NoSuccessCheck(p) ==
    /\ pc[p] = "l_judge"
    /\ LET l1 == Scored(loop[p], loop[p].snapshot, "")
           l == IF l1.args.skip_tune_phase THEN IterationOver(l1) ELSE l1
       IN
       IF l.args.skip_tune_phase
         THEN IF l.consecutive_no_improve >= l.args.max_consecutive_no_improvement
                THEN /\ loop' = [loop EXCEPT ![p] =
                                   [l EXCEPT !.status = "paused_no_improvement"]]
                     /\ pc' = [pc EXCEPT ![p] = "release"]
                ELSE /\ loop' = [loop EXCEPT ![p] = l]
                     /\ pc' = [pc EXCEPT ![p] = "cs"]
       ELSE IF (now - l.started_at) >= l.args.max_runtime_minutes
         THEN /\ loop' = [loop EXCEPT ![p] = [l EXCEPT !.status = "paused_runtime_limit"]]
              /\ pc' = [pc EXCEPT ![p] = "release"]
         ELSE /\ loop' = [loop EXCEPT ![p] = l]
              /\ pc' = [pc EXCEPT ![p] = "l_tune"]
    /\ UNCHANGED <<now, lockFile, marker, start, wake, fd, prev, raised, nestedCalls, hist>>
    /\ UNCHANGED <<kind, scorer, call, matrix, tuneVars>>

\* run_candidate_auto_improvement_loop.py:509-533: after the baseline run
LoopJudge(p) ==
    /\ pc[p] = "l_judge"
    /\ LET l1 == Scored(loop[p], loop[p].snapshot, "")
           l == IF l1.args.skip_tune_phase \/ l1.snapshot.pass THEN IterationOver(l1) ELSE l1
       IN
       IF l1.snapshot.pass
         THEN /\ loop' = [loop EXCEPT ![p] = [l EXCEPT !.status = "success_gate_pass"]]
              /\ pc' = [pc EXCEPT ![p] = "release"]
       ELSE IF l.args.skip_tune_phase
         THEN IF l.consecutive_no_improve >= l.args.max_consecutive_no_improvement
                THEN /\ loop' = [loop EXCEPT ![p] =
                                   [l EXCEPT !.status = "paused_no_improvement"]]
                     /\ pc' = [pc EXCEPT ![p] = "release"]
                ELSE /\ loop' = [loop EXCEPT ![p] = l]
                     /\ pc' = [pc EXCEPT ![p] = "cs"]
       ELSE IF (now - l.started_at) >= l.args.max_runtime_minutes
         THEN /\ loop' = [loop EXCEPT ![p] = [l EXCEPT !.status = "paused_runtime_limit"]]
              /\ pc' = [pc EXCEPT ![p] = "release"]
         ELSE /\ loop' = [loop EXCEPT ![p] = l]
              /\ pc' = [pc EXCEPT ![p] = "l_tune"]
    /\ UNCHANGED <<now, lockFile, marker, start, wake, fd, prev, raised, nestedCalls, hist>>
    /\ UNCHANGED <<kind, scorer, call, matrix, tuneVars>>

\* run_candidate_auto_improvement_loop.py:534-576: the tuning run is called in
\* the process of the loop
LoopTuneCall(p) ==
    /\ pc[p] = "l_tune"
    /\ tune' = [tune EXCEPT ![p] = [NoTune EXCEPT !.args = LoopTuneArgs]]
    /\ pc' = [pc EXCEPT ![p] = "t_read"]
    /\ UNCHANGED <<now, lockFile, marker, start, wake, fd, prev, raised, nestedCalls, hist>>
    /\ UNCHANGED <<kind, scorer, call, matrix, loop, configFile, cacheFile, artifacts, plan>>

\* the selection of lines 582-621 that writes the winner but does not record
\* it as the last applied combo
LoopSelect_NotRecorded(p) ==
    /\ pc[p] = "l_select"
    /\ LET l == loop[p]
           best_combo == select_best_combo_from_tune_summary(p)
           skip_post_apply_run == l.last_applied_combo # NoCombo
                                    /\ best_combo = l.last_applied_combo
       IN  IF best_combo = NoCombo
             THEN /\ raised' = [raised EXCEPT ![p] = TRUE]
                  /\ pc' = [pc EXCEPT ![p] = "release"]
                  /\ UNCHANGED <<loop, configFile>>
           ELSE IF skip_post_apply_run
             THEN /\ loop' = [loop EXCEPT ![p].best_combo = best_combo,
                                          ![p].skip_post_apply_run = TRUE,
                                          ![p].post_snapshot = l.snapshot]
                  /\ pc' = [pc EXCEPT ![p] = "l_post_judge"]
                  /\ UNCHANGED <<raised, configFile>>
             ELSE /\ configFile' = apply_combo_to_config_object(configFile, best_combo)
                  /\ loop' = [loop EXCEPT ![p].best_combo = best_combo,
                                          ![p].skip_post_apply_run = FALSE]
                  /\ pc' = [pc EXCEPT ![p] = "l_post_run"]
                  /\ UNCHANGED raised
    /\ tune' = [tune EXCEPT ![p] = NoTune]
    /\ UNCHANGED <<now, lockFile, marker, start, wake, fd, prev, nestedCalls, hist>>
    /\ UNCHANGED <<kind, scorer, call, matrix, cacheFile, artifacts, plan>>

\* the selection of lines 582-621 without the test of lines 595-599: the winner
\* is written and validated again even when it is the combo applied last
LoopSelect_AlwaysApply(p) ==
    /\ pc[p] = "l_select"
    /\ LET l == loop[p]
           best_combo == select_best_combo_from_tune_summary(p)
       IN  IF best_combo = NoCombo
             THEN /\ raised' = [raised EXCEPT ![p] = TRUE]
                  /\ pc' = [pc EXCEPT ![p] = "release"]
                  /\ UNCHANGED <<loop, configFile>>
             ELSE /\ configFile' = apply_combo_to_config_object(configFile, best_combo)
                  /\ loop' = [loop EXCEPT ![p].best_combo = best_combo,
                                          ![p].skip_post_apply_run = FALSE,
                                          ![p].last_applied_combo = best_combo]
                  /\ pc' = [pc EXCEPT ![p] = "l_post_run"]
                  /\ UNCHANGED raised
    /\ tune' = [tune EXCEPT ![p] = NoTune]
    /\ UNCHANGED <<now, lockFile, marker, start, wake, fd, prev, nestedCalls, hist>>
    /\ UNCHANGED <<kind, scorer, call, matrix, cacheFile, artifacts, plan>>

\* run_candidate_auto_improvement_loop.py:577-621 with 275-282: the best combo
\* of the tuning run; it is written into the configuration file unless it is
\* the combo applied last
LoopSelect(p) ==
    /\ pc[p] = "l_select"
    /\ LET l == loop[p]
           best_combo == select_best_combo_from_tune_summary(p)
           skip_post_apply_run == l.last_applied_combo # NoCombo
                                    /\ best_combo = l.last_applied_combo
       IN  IF best_combo = NoCombo
             THEN /\ raised' = [raised EXCEPT ![p] = TRUE]
                  /\ pc' = [pc EXCEPT ![p] = "release"]
                  /\ UNCHANGED <<loop, configFile>>
           ELSE IF skip_post_apply_run
             THEN /\ loop' = [loop EXCEPT ![p].best_combo = best_combo,
                                          ![p].skip_post_apply_run = TRUE,
                                          ![p].post_snapshot = l.snapshot]
                  /\ pc' = [pc EXCEPT ![p] = "l_post_judge"]
                  /\ UNCHANGED <<raised, configFile>>
             ELSE /\ configFile' = apply_combo_to_config_object(configFile, best_combo)
                  /\ loop' = [loop EXCEPT ![p].best_combo = best_combo,
                                          ![p].skip_post_apply_run = FALSE,
                                          ![p].last_applied_combo = best_combo]
                  /\ pc' = [pc EXCEPT ![p] = "l_post_run"]
                  /\ UNCHANGED raised
    /\ tune' = [tune EXCEPT ![p] = NoTune]
    /\ UNCHANGED <<now, lockFile, marker, start, wake, fd, prev, nestedCalls, hist>>
    /\ UNCHANGED <<kind, scorer, call, matrix, cacheFile, artifacts, plan>>

\* run_candidate_auto_improvement_loop.py:622-641: the post-apply validation
\* run (it leaves the configuration file as it found it); a failure raises
LoopPostRun(p) ==
    /\ pc[p] = "l_post_run"
    /\ \/ /\ raised' = [raised EXCEPT ![p] = TRUE]
          /\ pc' = [pc EXCEPT ![p] = "release"]
          /\ UNCHANGED loop
       \/ \E snap \in Snapshots :
             /\ loop' = [loop EXCEPT ![p].post_snapshot = snap,
                                     ![p].same_metrics = Observed(@, snap)]
             /\ pc' = [pc EXCEPT ![p] = "l_post_judge"]
             /\ UNCHANGED raised
    /\ UNCHANGED <<now, lockFile, marker, start, wake, fd, prev, nestedCalls, hist>>
    /\ UNCHANGED <<kind, scorer, call, matrix, tuneVars>>

\* run_candidate_auto_improvement_loop.py:642-689: after the post-apply run;
\* the loss analysis (it restores the configuration file) may raise
LoopPostJudge(p) ==
    /\ pc[p] = "l_post_judge"
    /\ LET l0 == [loop[p] EXCEPT !.rows = Append(@, "post_apply")]
           l1 == Scored(l0, l0.post_snapshot, l0.best_combo.combo_id)
           l == IterationOver(l1)
           post_snapshot == l1.post_snapshot
       IN  \/ /\ l.args.run_loss_analysis
              /\ loop' = [loop EXCEPT ![p] = l]
              /\ raised' = [raised EXCEPT ![p] = TRUE]
              /\ pc' = [pc EXCEPT ![p] = "release"]
           \/ /\ UNCHANGED raised
              /\ IF post_snapshot.pass
                   THEN /\ loop' = [loop EXCEPT ![p] =
                                      [l EXCEPT !.status = "success_gate_pass"]]
                        /\ pc' = [pc EXCEPT ![p] = "release"]
                 ELSE IF l.consecutive_no_improve >= l.args.max_consecutive_no_improvement
                   THEN /\ loop' = [loop EXCEPT ![p] =
                                      [l EXCEPT !.status = "paused_no_improvement"]]
                        /\ pc' = [pc EXCEPT ![p] = "release"]
                   ELSE /\ loop' = [loop EXCEPT ![p] = l]
                        /\ pc' = [pc EXCEPT ![p] = "cs"]
    /\ UNCHANGED <<now, lockFile, marker, start, wake, fd, prev, nestedCalls, hist>>
    /\ UNCHANGED <<kind, scorer, call, matrix, tuneVars>>

\* the end of lines 691-776 without lines 691-697: the status is left as the
\* iterations left it
LoopEnd_KeepStatus(p) ==
    /\ pc[p] = "l_end"
    /\ pc' = [pc EXCEPT ![p] = "done"]
    /\ UNCHANGED <<now, lockFile, marker, start, wake, fd, prev, raised, nestedCalls, hist>>
    /\ UNCHANGED <<kind, scorer, call, matrix, loop, tuneVars>>

\* the end of lines 691-776 without the test of line 692: a loop that ran out
\* of iterations is reported as one without data
LoopEnd_NoData(p) ==
    /\ pc[p] = "l_end"
    /\ loop' = [loop EXCEPT ![p].status = IF @ # "running" THEN @ ELSE "paused_no_data"]
    /\ pc' = [pc EXCEPT ![p] = "done"]
    /\ UNCHANGED <<now, lockFile, marker, start, wake, fd, prev, raised, nestedCalls, hist>>
    /\ UNCHANGED <<kind, scorer, call, matrix, tuneVars>>

\* run_candidate_auto_improvement_loop.py:691-776: the status of a loop that
\* ran out of iterations, and the summary
LoopEnd(p) ==
    /\ pc[p] = "l_end"
    /\ loop' = [loop EXCEPT ![p].status =
                  IF @ # "running" THEN @
                  ELSE IF loop[p].args.max_iterations > 0 /\ loop[p].rows # <<>>
                    THEN "paused_max_iterations"
                    ELSE "paused_no_data"]
    /\ pc' = [pc EXCEPT ![p] = "done"]
    /\ UNCHANGED <<now, lockFile, marker, start, wake, fd, prev, raised, nestedCalls, hist>>
    /\ UNCHANGED <<kind, scorer, call, matrix, tuneVars>>

\* run_candidate_auto_improvement_loop.py:361-403: one loop run, by process
\* p1, started at time 0 with its arguments; the lock file of a crashed holder
\* may be there, fresh or stale
InitLoop ==
    /\ now = 0
    /\ lockFile \in {NoFile, DeadFile, StaleFile}
    /\ marker = [p \in Procs |-> Unset]
    /\ pc = [p \in Procs |-> IF p = "p1" THEN "call" ELSE "idle"]
    /\ start = [p \in Procs |-> 0]
    /\ wake = [p \in Procs |-> 0]
    /\ fd = [p \in Procs |-> FALSE]
    /\ prev = [p \in Procs |-> Unset]
    /\ raised = [p \in Procs |-> FALSE]
    /\ nestedCalls = [p \in Procs |-> 0]
    /\ hist = [p \in Procs |-> NoHist]
    /\ kind = [p \in Procs |-> IF p = "p1" THEN "loop" ELSE "tune"]
    /\ scorer = NoScore
    /\ call = NoCall
    /\ matrix = NoMatrix
    /\ configFile = BaseConfig
    /\ cacheFile = AbsentCache
    /\ artifacts = {}
    /\ tune = [p \in Procs |-> NoTune]
    /\ plan = [p \in Procs |-> <<>>]
    /\ \E a \in (IF lockFile = NoFile THEN LoopArgs ELSE LoopArgsAfterWait) :
          loop = [p \in Procs |->
                    IF p = "p1" THEN [NoLoop EXCEPT !.args = a, !.started_at = now,
                                                    !.pre_run = configFile]
                    ELSE NoLoop]

NextLoop ==
    \/ Tick
    \/ DeleteArtifact
    \/ \E p \in Procs :
          \/ LockEnter(p)
          \/ LockTryCreate(p)
          \/ LockStat(p)
          \/ LockUnlinkStale(p)
          \/ LockTimeoutCheck(p)
          \/ LockWake(p)
          \/ LockNestedReturn(p)
          \/ LockRelease(p)
          \/ TuneReadConfig(p)
          \/ TuneLoadCache(p)
          \/ TuneLookup(p)
          \/ TuneWriteConfig(p)
          \/ TuneRunMatrix(p)
          \/ TuneSelect(p)
          \/ TuneBodyEnd(p)
          \/ TuneFinally(p)
          \/ TuneSummary(p)
          \/ TuneSaveCache(p)
          \/ LoopIterate(p)
          \/ LoopBaseline(p)
          \/ LoopJudge(p)
          \/ LoopTuneCall(p)
          \/ LoopSelect(p)
          \/ LoopPostRun(p)
          \/ LoopPostJudge(p)
          \/ LoopEnd(p)

SpecLoop == InitLoop /\ [][NextLoop]_vars

\* run_candidate_auto_improvement_loop.py:361-403: one loop run as in InitLoop,
\* with a negative, a zero or a positive --improvement-epsilon (line 49: any
\* float, in units of the scores)
InitLoopEps ==
    /\ now = 0
    /\ lockFile \in {NoFile, DeadFile, StaleFile}
    /\ marker = [p \in Procs |-> Unset]
    /\ pc = [p \in Procs |-> IF p = "p1" THEN "call" ELSE "idle"]
    /\ start = [p \in Procs |-> 0]
    /\ wake = [p \in Procs |-> 0]
    /\ fd = [p \in Procs |-> FALSE]
    /\ prev = [p \in Procs |-> Unset]
    /\ raised = [p \in Procs |-> FALSE]
    /\ nestedCalls = [p \in Procs |-> 0]
    /\ hist = [p \in Procs |-> NoHist]
    /\ kind = [p \in Procs |-> IF p = "p1" THEN "loop" ELSE "tune"]
    /\ scorer = NoScore
    /\ call = NoCall
    /\ matrix = NoMatrix
    /\ configFile = BaseConfig
    /\ cacheFile = AbsentCache
    /\ artifacts = {}
    /\ tune = [p \in Procs |-> NoTune]
    /\ plan = [p \in Procs |-> <<>>]
    /\ \E a \in (IF lockFile = NoFile THEN LoopArgs ELSE LoopArgsAfterWait),
          e \in {0 - 2, 0, 1} :
          loop = [p \in Procs |->
                    IF p = "p1"
                      THEN [NoLoop EXCEPT !.args = [a EXCEPT !.improvement_epsilon = e],
                                          !.started_at = now, !.pre_run = configFile]
                    ELSE NoLoop]

SpecLoopEps == InitLoopEps /\ [][NextLoop]_vars

--------------------------------------------------------------------------
(* The claims about the tuning run, under SpecTune and SpecRun *)

\* the process holds the lock it acquired
HoldsLock(p) == fd[p] /\ lockFile.owner = p

\* the process is about to load, or about to persist, the cache file
AtCacheIO(p) == pc[p] \in {"t_load", "t_save"}

\* no process is running and none is still to be started
AllFinished == \A p \in Procs : Resting(p) /\ plan[p] = <<>>

\* C2: a stand-alone tuning run loads and persists the cache file only while
\* it holds the verification lock, and no two runs are at a load or a persist
\* of the cache file together.
C2_CacheUnderLock ==
    /\ \A p \in Procs : AtCacheIO(p) => HoldsLock(p)
    /\ \A p, q \in Procs : (p # q /\ AtCacheIO(p)) => ~AtCacheIO(q)

\* C3: of two tuning runs sharing the configuration file and the lock path,
\* neither captures as its original configuration a content into which the
\* other run has merged a candidate, and when both have finished the file
\* holds the content it had before either started.
C3_OriginalNeverMerged ==
    /\ \A p \in Procs : tune[p].original_build_raw = BaseConfig
    /\ AllFinished => configFile = BaseConfig

\* C4: when a tuning run that acquired the lock is over, all its evaluations
\* having succeeded or one of them having raised, the configuration file holds
\* the content the run read at its start.
C4_ConfigRestored ==
    \A p \in Procs :
        (hist[p].acquired /\ pc[p] \in {"release", "t_post", "t_save", "done", "failed"})
          => configFile = tune[p].original_build_raw

\* a run ended by an evaluation that raised in the final stage, after it had
\* written a candidate into the file; the file is back at the original content
C4_Witness ==
    \E p \in Procs :
        /\ pc[p] = "failed" /\ raised[p] /\ hist[p].acquired
        /\ tune[p].stage = "final" /\ tune[p].invocations >= 2
        /\ configFile = tune[p].original_build_raw

\* the lookup of the current combo finds an entry whose files all exist
CacheHit(p) ==
    /\ pc[p] = BodyPc(p)
    /\ tune[p].idx < Len(StageCombos(p))
    /\ tune[p].args.cache_enabled
    /\ cache_key(p, CurrentCombo(p), tune[p].stage) \in DOMAIN tune[p].entries
    /\ ArtifactsExist(tune[p].entries[cache_key(p, CurrentCombo(p), tune[p].stage)])

\* the entry the lookup of the current combo finds
CachedRow(p) == tune[p].entries[cache_key(p, CurrentCombo(p), tune[p].stage)]

\* an evaluation that ran the matrix runner returns its row
FreshReturn(p) == pc[p] = "t_run" /\ pc'[p] = BodyPc(p)

\* C10 as stated: with caching on, the evaluation that ran the matrix runner
\* stores the row it returns, and a later evaluation of the same candidate in
\* the same context, the files of the stored row existing, runs nothing and
\* returns a row identical to the stored one.
C10_Identical ==
    [][\A p \in Procs :
          /\ (FreshReturn(p) /\ tune[p].args.cache_enabled)
                => tune'[p].entries[cache_key(p, CurrentCombo(p), tune[p].stage)]
                     = tune'[p].returned
          /\ (CacheHit(p) /\ (tune'[p] # tune[p] \/ pc'[p] # pc[p]))
                => /\ tune'[p].invocations = tune[p].invocations
                   /\ pc'[p] = pc[p]
                   /\ configFile' = configFile
                   /\ tune'[p].returned = CachedRow(p)]_vars

\* C10, amended: as C10, but the row the second evaluation returns is the
\* stored row with from_cache set to TRUE, the stored row having it FALSE.
C10_IdenticalButFromCache ==
    [][\A p \in Procs :
          /\ (FreshReturn(p) /\ tune[p].args.cache_enabled)
                => /\ tune'[p].entries[cache_key(p, CurrentCombo(p), tune[p].stage)]
                        = tune'[p].returned
                   /\ ~tune'[p].returned.from_cache
                   /\ tune'[p].invocations = tune[p].invocations + 1
          /\ (CacheHit(p) /\ (tune'[p] # tune[p] \/ pc'[p] # pc[p]))
                => /\ tune'[p].invocations = tune[p].invocations
                   /\ pc'[p] = pc[p]
                   /\ configFile' = configFile
                   /\ ~CachedRow(p).from_cache
                   /\ tune'[p].returned = [CachedRow(p) EXCEPT !.from_cache = TRUE]
                   /\ tune'[p].entries = tune[p].entries]_vars

\* a run has gone through a whole stage on cache hits alone: every row it
\* has comes from the cache and it has run the matrix runner not once
C10_Witness ==
    \E p \in Procs :
        /\ tune[p].returned.from_cache
        /\ tune[p].invocations = 0
        /\ tune[p].stage = "final" /\ tune[p].idx >= 1
        /\ Len(tune[p].screen_rows) >= 2

\* the lookup of the current combo finds an entry of which a file is missing
DanglingHit(p) ==
    /\ pc[p] = BodyPc(p)
    /\ tune[p].idx < Len(StageCombos(p))
    /\ tune[p].args.cache_enabled
    /\ cache_key(p, CurrentCombo(p), tune[p].stage) \in DOMAIN tune[p].entries
    /\ ~ArtifactsExist(tune[p].entries[cache_key(p, CurrentCombo(p), tune[p].stage)])

\* C11: a lookup that finds an entry of which a report file is missing returns
\* no row: the entry is removed from the cache and the evaluation goes on as
\* for a miss, to the write of the candidate and the matrix runner, which is
\* invoked once more; the row of a run that succeeds is stored under the key.
C11_DanglingRecomputed ==
    [][\A p \in Procs :
          LET key == cache_key(p, CurrentCombo(p), tune[p].stage) IN
          /\ (DanglingHit(p) /\ (tune'[p] # tune[p] \/ pc'[p] # pc[p]))
                => /\ pc'[p] = "t_write"
                   /\ key \notin DOMAIN tune'[p].entries
                   /\ tune'[p].idx = tune[p].idx
                   /\ tune'[p].returned = tune[p].returned
                   /\ tune'[p].invocations = tune[p].invocations
          /\ (pc[p] = "t_write" /\ pc'[p] # pc[p]) => pc'[p] = "t_run"
          /\ (pc[p] = "t_run" /\ pc'[p] # pc[p])
                => /\ tune'[p].invocations = tune[p].invocations + 1
                   /\ pc'[p] \in {BodyPc(p), "t_finally"}
                   /\ (pc'[p] = BodyPc(p) /\ tune[p].args.cache_enabled)
                        => (/\ key \in DOMAIN tune'[p].entries
                            /\ tune'[p].entries[key] = tune'[p].returned
                            /\ ~tune'[p].returned.from_cache
                            /\ <<tune'[p].returned.combo_id, tune'[p].returned.stage>>
                                 \in artifacts')]_vars

\* a run has evaluated anew a candidate whose entry in the cache file has lost
\* a report file: the row it stored differs from the one in the file
C11_Witness ==
    \E p \in Procs :
        \E k \in (DOMAIN cacheFile.entries) \cap (DOMAIN tune[p].entries) :
            /\ tune[p].entries[k] # cacheFile.entries[k]
            /\ tune[p].entries[k] = tune[p].returned
            /\ tune[p].invocations = 1
            /\ tune[p].idx >= 1

\* the final loop of the run of p has gone through all its candidates
FinalOver(p) ==
    /\ kind[p] = "tune" /\ ~raised[p]
    /\ tune[p].stage = "final"
    /\ tune[p].idx = Len(tune[p].combos_for_final)
    /\ pc[p] \in {"cs", "release", "t_post", "t_save", "done"}

\* the ids of the K first rows of the screening rows in descending key order
TopK(p) ==
    {SortedDesc(tune[p].screen_rows)[i].combo_id : i \in 1..tune[p].args.screen_top_k}

\* C13: with screening on and 1 <= K <= N, a run whose final loop is over has
\* made K final evaluations, of the candidates of the K highest-ranked
\* screening rows; if it found no cache file it has invoked the external
\* evaluator N + K times.
C13_TopK ==
    \A p \in Procs :
        LET K == tune[p].args.screen_top_k
            N == Len(combo_specs(p))
        IN  (FinalOver(p) /\ do_screening(p) /\ 1 <= K /\ K <= N)
              => /\ Len(tune[p].rows) = K
                 /\ {tune[p].combos_for_final[i].combo_id : i \in 1..Len(tune[p].rows)} = TopK(p)
                 /\ \A i \in 1..Len(tune[p].rows) : tune[p].rows[i].stage = "final"
                 /\ cacheFile = AbsentCache => tune[p].invocations = N + K

\* C14: with screening off no candidate is evaluated at stage screen: the run
\* has no screening row, every row it has is a final one, and when its final
\* loop is over it has one row for each candidate.
C14_NoScreenWhenOff ==
    \A p \in Procs :
        (kind[p] = "tune" /\ ~do_screening(p))
          => /\ tune[p].screen_rows = <<>>
             /\ tune[p].returned.stage # "screen"
             /\ \A i \in 1..Len(tune[p].rows) : tune[p].rows[i].stage = "final"
             /\ FinalOver(p) => Len(tune[p].rows) = Len(combo_specs(p))

\* C28 as stated: every row of a run, served from the cache or not, carries
\* the combo id of the candidate it was returned for; so with screening on
\* and K >= 1 the final stage has min(K, N) candidates, each of them a
\* candidate of the run.
C28_RowsCarryOwnId ==
    \A p \in Procs :
        kind[p] = "tune" =>
          LET t == tune[p]
              K == t.args.screen_top_k
              N == Len(combo_specs(p))
          IN  /\ \A i \in 1..Len(t.screen_rows) :
                    t.screen_rows[i].combo_id = combo_specs(p)[i].combo_id
              /\ t.stage = "final"
                    => \A i \in 1..Len(t.rows) :
                          t.rows[i].combo_id = t.combos_for_final[i].combo_id
              /\ (t.stage = "final" /\ do_screening(p) /\ K >= 1)
                    => Len(t.combos_for_final) = Min(K, N)

\* the lookup of the current combo finds a value that is no object
MalformedHit(p) ==
    /\ pc[p] = BodyPc(p)
    /\ tune[p].idx < Len(StageCombos(p))
    /\ tune[p].args.cache_enabled
    /\ cache_key(p, CurrentCombo(p), tune[p].stage) \in DOMAIN tune[p].entries
    /\ tune[p].entries[cache_key(p, CurrentCombo(p), tune[p].stage)] = NullEntry

\* C12: a malformed cache is never a hard error: the load of a document that
\* cannot be used gives an empty cache, and the lookup of a key under which a
\* well-formed document holds a malformed entry is a miss, after which the
\* candidate is written and evaluated; neither step raises.
C12_MalformedIsMiss ==
    [][\A p \in Procs :
          /\ (pc[p] = "t_load" /\ pc'[p] # pc[p] /\ cacheFile.state # "ok")
                => (tune'[p].entries = NoEntries /\ ~raised'[p])
          /\ (MalformedHit(p) /\ (tune'[p] # tune[p] \/ pc'[p] # pc[p]))
                => (pc'[p] = "t_write" /\ ~raised'[p])]_vars

\* an invocation of the matrix runner by the run has produced no row (it
\* exited non-zero, or left no report file, or no summary of the target
\* profile): the run has invoked it more often than it has rows that are not
\* from the cache
EvaluatorFailed(p) ==
    tune[p].invocations
      > Cardinality({i \in 1..Len(tune[p].screen_rows) : ~tune[p].screen_rows[i].from_cache})
          + Cardinality({i \in 1..Len(tune[p].rows) : ~tune[p].rows[i].from_cache})

\* C21: when the matrix runner fails for a candidate, at either stage, the
\* tuning run aborts: the failure raises out of the stage loop, and from then
\* on the run invokes the matrix runner no more (no retry, no later
\* candidate), gains no row, writes no summary and leaves the cache file as
\* it is, up to the end of the run, which is a failure.
C21_EvaluatorFailureAborts ==
    [][\A p \in Procs :
          /\ (~EvaluatorFailed(p) /\ EvaluatorFailed(p)')
                => /\ raised'[p]
                   /\ pc'[p] = "t_finally"
                   /\ tune'[p].idx = tune[p].idx
                   /\ tune'[p].invocations = tune[p].invocations + 1
          /\ (EvaluatorFailed(p) /\ EvaluatorFailed(p)')
                => /\ raised'[p]
                   /\ pc'[p] \in {"t_finally", "release", "failed"}
                   /\ tune'[p].invocations = tune[p].invocations
                   /\ tune'[p].idx = tune[p].idx
                   /\ tune'[p].screen_rows = tune[p].screen_rows
                   /\ tune'[p].rows = tune[p].rows
                   /\ ~tune'[p].summary
                   /\ cacheFile' = cacheFile]_vars

\* a run has ended as a failure on its first invocation of the matrix runner,
\* with a candidate still to come, no summary and no cache file
C21_Witness ==
    \E p \in Procs :
        /\ pc[p] = "failed" /\ EvaluatorFailed(p)
        /\ tune[p].invocations = 1 /\ tune[p].idx + 1 < Len(StageCombos(p))
        /\ ~tune[p].summary /\ cacheFile = AbsentCache

--------------------------------------------------------------------------
(* The claims about the configuration file and the loop, under SpecLoop *)

\* the loop run of the process is over: it returned, it raised, or it timed
\* out waiting for the lock
LoopOver(p) == kind[p] = "loop" /\ pc[p] \in {"done", "failed", "timedout"}

\* C5 as stated: when a loop run is over, whatever its status and also when a
\* baseline, tuning or post-apply step raised, the configuration file holds
\* the content it had before the run.
C5_ConfigRestored ==
    \A p \in Procs : LoopOver(p) => configFile = loop[p].pre_run

\* C5, amended: when a loop run is over, on any exit path, the configuration
\* file holds its content from before the run if the run applied no combo, and
\* otherwise that content with the tunables of the combo applied last; the
\* candidates the nested tuning runs wrote for their evaluations are gone.
C5_ConfigAsLastApplied ==
    \A p \in Procs :
        LoopOver(p) =>
            configFile = IF loop[p].last_applied_combo = NoCombo
                           THEN loop[p].pre_run
                           ELSE apply_combo_to_config_object(loop[p].pre_run,
                                                             loop[p].last_applied_combo)

\* a loop run that raised in its second iteration, after it had applied a
\* combo: the file holds the tunables of that combo
C5_Witness ==
    \E p \in Procs :
        /\ LoopOver(p) /\ pc[p] = "failed" /\ loop[p].iteration = 2
        /\ loop[p].last_applied_combo # NoCombo
        /\ configFile # loop[p].pre_run
        /\ configFile.tunables = loop[p].last_applied_combo.fp

\* the loop run of p has ended without an error and without reaching its
\* runtime budget, and every validation run returned the same metrics, which
\* do not pass
EndedOnSameInfeasible(p) ==
    /\ kind[p] = "loop"
    /\ pc[p] = "done"
    /\ ~raised[p]
    /\ loop[p].status # "paused_runtime_limit"
    /\ \E snap \in Snapshots : ~snap.pass /\ loop[p].same_metrics = {snap}

MostCounted(a) ==
    IF a.skip_tune_phase THEN a.max_iterations - 1 ELSE (2 * a.max_iterations) - 1

\* C18 as stated, the counter disabled by a limit of 0: a run whose validation
\* runs all return the same infeasible metrics goes through max_iterations
\* iterations and ends paused_max_iterations.
C18_MaxIterationsWhenDisabled ==
    \A p \in Procs :
        LET a == loop[p].args IN
        (/\ EndedOnSameInfeasible(p)
         /\ a.max_iterations >= 1
         /\ a.max_consecutive_no_improvement <= 0)
          => /\ loop[p].status = "paused_max_iterations"
             /\ loop[p].iteration = a.max_iterations

\* C18: a run whose validation runs all return the same infeasible metrics and
\* whose no-improvement limit is above the number of runs it can count goes
\* through max_iterations iterations and ends paused_max_iterations; with a
\* limit of 0 or less it ends paused_no_improvement in its first iteration.
C18_MaxIterationsWhenOutOfReach ==
    \A p \in Procs :
        LET a == loop[p].args IN
        (EndedOnSameInfeasible(p) /\ a.max_iterations >= 1)
          => /\ a.max_consecutive_no_improvement > MostCounted(a)
                  => /\ loop[p].status = "paused_max_iterations"
                     /\ loop[p].iteration = a.max_iterations
                     /\ loop[p].consecutive_no_improve = MostCounted(a)
             /\ a.max_consecutive_no_improvement <= 0
                  => /\ loop[p].status = "paused_no_improvement"
                     /\ loop[p].iteration = 1

\* a run with the tune phase has counted a run without improvement, stayed
\* below its limit and used up its iterations
C18_Witness ==
    \E p \in Procs :
        /\ EndedOnSameInfeasible(p)
        /\ ~loop[p].args.skip_tune_phase
        /\ loop[p].args.max_consecutive_no_improvement > MostCounted(loop[p].args)
        /\ loop[p].consecutive_no_improve >= 1
        /\ loop[p].rows = <<"baseline", "post_apply">>
        /\ loop[p].status = "paused_max_iterations"

\* C19: when the baseline run of iteration 1 returns metrics that satisfy the
\* target with the overall gate passed, the next step of the loop sets
\* success_gate_pass and leaves the iterations; from then on the run goes to
\* its end in iteration 1, and it has started no tuning run, evaluated no
\* candidate and left the configuration file as it was before the run.
C19_SuccessOnFirstBaseline ==
    [][\A p \in Procs :
          /\ (/\ pc[p] = "l_judge"
              /\ loop[p].iteration = 1
              /\ loop[p].snapshot.pass
              /\ pc'[p] # pc[p])
               => /\ pc'[p] = "release"
                  /\ loop'[p].status = "success_gate_pass"
                  /\ loop'[p].rows = <<"baseline">>
          /\ (loop'[p].status = "success_gate_pass" /\ loop'[p].rows = <<"baseline">>)
               => /\ pc'[p] \in {"release", "l_end", "done"}
                  /\ loop'[p].iteration = 1
                  /\ loop'[p].last_applied_combo = NoCombo
                  /\ tune'[p] = NoTune
                  /\ artifacts' = {}
                  /\ cacheFile' = AbsentCache
                  /\ configFile' = loop'[p].pre_run]_vars

\* a loop run with the tune phase enabled has ended on its first baseline
C19_Witness ==
    \E p \in Procs :
        /\ pc[p] = "done"
        /\ ~loop[p].args.skip_tune_phase
        /\ loop[p].args.max_iterations = MaxIterations
        /\ loop[p].status = "success_gate_pass"
        /\ loop[p].rows = <<"baseline">>
        /\ loop[p].iteration = 1

\* the statuses the spec's state machine names
FourStatuses ==
    {"success_gate_pass", "paused_no_improvement", "paused_runtime_limit",
     "paused_max_iterations"}

\* C20 as stated: a loop run that returns has one of the four statuses,
\* whatever max_iterations, the runtime budget and the no-improvement limit.
C20_OneOfFourStatuses ==
    \A p \in Procs :
        (kind[p] = "loop" /\ pc[p] = "done") => loop[p].status \in FourStatuses

\* C20: a loop run that does not raise returns with one of the four statuses
\* or with paused_no_data, which it has exactly when max_iterations is not
\* positive; and once a status other than running is set, the run starts no
\* evaluation and no tuning run: it only releases the lock and returns, its
\* locals, the locals of the tuning run and the configuration file unchanged.
C20_TerminalStatus ==
    [][\A p \in Procs :
          kind[p] = "loop" =>
            /\ pc'[p] = "done"
                 => /\ ~raised'[p]
                    /\ loop'[p].status \in FourStatuses \cup {"paused_no_data"}
                    /\ loop'[p].status = "paused_no_data"
                         <=> loop'[p].args.max_iterations <= 0
            /\ loop[p].status # "running"
                 => /\ loop'[p] = loop[p]
                    /\ tune'[p] = tune[p]
                    /\ configFile' = configFile
                    /\ pc[p] \in {"release", "l_end", "done"}
                    /\ pc'[p] \in {"release", "l_end", "done"}]_vars

\* a loop run with max_iterations = 0 has returned without data
C20_Witness ==
    \E p \in Procs :
        /\ kind[p] = "loop" /\ pc[p] = "done"
        /\ loop[p].args.max_iterations = 0
        /\ loop[p].rows = <<>>
        /\ loop[p].status = "paused_no_data"

\* the step in which the loop scores the baseline run, or the post-apply run
ScoresBaseline(p) == kind[p] = "loop" /\ pc[p] = "l_judge" /\ pc'[p] # pc[p]
ScoresPostApply(p) == kind[p] = "loop" /\ pc[p] = "l_post_judge" /\ pc'[p] # pc[p]

\* C24 as stated: the counter of runs without improvement changes once in an
\* iteration: the scoring of the baseline sets it to 0 when the score exceeds
\* the best score plus epsilon and adds 1 to it otherwise, and when that has
\* added 1 the iteration does not add to it again; and the status becomes
\* paused_no_improvement only with the counter at the limit or above.
C24_CounterOncePerIteration ==
    [][\A p \in Procs :
          /\ ScoresBaseline(p)
                => loop'[p].consecutive_no_improve
                     = IF Improves(loop[p].snapshot.objective_score, loop[p])
                         THEN 0 ELSE loop[p].consecutive_no_improve + 1
          /\ (ScoresPostApply(p) /\ loop[p].consecutive_no_improve > 0)
                => loop'[p].consecutive_no_improve \in {0, loop[p].consecutive_no_improve}
          /\ (loop[p].status = "running" /\ loop'[p].status = "paused_no_improvement")
                => loop'[p].consecutive_no_improve
                     >= loop[p].args.max_consecutive_no_improvement]_vars

C26_RuntimeLimitPauses ==
    [][\A p \in Procs :
          kind[p] = "loop" =>
            /\ (/\ pc[p] = "cs" /\ pc'[p] # pc[p]
                /\ loop[p].iteration < loop[p].args.max_iterations
                /\ (now - loop[p].started_at) >= loop[p].args.max_runtime_minutes)
                 => /\ loop'[p].status = "paused_runtime_limit"
                    /\ loop'[p].rows = loop[p].rows
                    /\ pc'[p] = "release"
            /\ (/\ pc[p] = "l_judge" /\ pc'[p] # pc[p]
                /\ ~loop[p].snapshot.pass
                /\ ~loop[p].args.skip_tune_phase
                /\ (now - loop[p].started_at) >= loop[p].args.max_runtime_minutes)
                 => /\ loop'[p].status = "paused_runtime_limit"
                    /\ loop'[p].rows = loop[p].rows
                    /\ pc'[p] = "release"
            /\ loop[p].status = "paused_runtime_limit"
                 => /\ pc[p] \in {"release", "l_end", "done"}
                    /\ pc'[p] \in {"release", "l_end", "done"}
                    /\ loop'[p] = loop[p]
                    /\ tune'[p] = NoTune
                    /\ cacheFile' = cacheFile
                    /\ configFile' = configFile]_vars

\* a loop run has ended at the start of its second iteration with the runtime
\* budget reached, after a first iteration with a tune phase
C26_Witness ==
    \E p \in Procs :
        /\ kind[p] = "loop" /\ pc[p] = "done"
        /\ loop[p].status = "paused_runtime_limit"
        /\ loop[p].iteration = 2
        /\ loop[p].rows = <<"baseline", "post_apply">>
        /\ (now - loop[p].started_at) >= loop[p].args.max_runtime_minutes

\* C30 as stated: the best objective never decreases (a best objective not
\* yet set is below every score), and the score that a baseline or post_apply
\* phase has recorded is at most the best objective plus epsilon once the
\* phase has scored it; as the best objective never decreases, so is then
\* every score recorded before.
C30_BestNeverDecreases ==
    [][\A p \in Procs :
          kind[p] = "loop" =>
            /\ loop'[p].best_objective >= loop[p].best_objective
            /\ ScoresBaseline(p)
                  => loop[p].snapshot.objective_score
                       <= loop'[p].best_objective + loop[p].args.improvement_epsilon
            /\ ScoresPostApply(p)
                  => loop[p].post_snapshot.objective_score
                       <= loop'[p].best_objective + loop[p].args.improvement_epsilon]_vars

\* C30: in a loop run whose improvement epsilon is not negative the best
\* objective never decreases, and the score that a baseline or post_apply
\* phase has recorded is at most the best objective plus epsilon once the
\* phase has scored it, hence so is every score recorded before; with any
\* epsilon, a best objective that changes becomes the score just recorded,
\* which exceeds the old one plus epsilon.
C30_BestNeverDecreasesEps ==
    [][\A p \in Procs :
          kind[p] = "loop" =>
            /\ loop[p].args.improvement_epsilon >= 0
                  => /\ loop'[p].best_objective >= loop[p].best_objective
                     /\ ScoresBaseline(p)
                           => loop[p].snapshot.objective_score
                                <= loop'[p].best_objective + loop[p].args.improvement_epsilon
                     /\ ScoresPostApply(p)
                           => loop[p].post_snapshot.objective_score
                                <= loop'[p].best_objective + loop[p].args.improvement_epsilon
            /\ loop'[p].best_objective # loop[p].best_objective
                  => /\ ScoresBaseline(p) \/ ScoresPostApply(p)
                     /\ loop'[p].best_objective
                          = IF ScoresBaseline(p) THEN loop[p].snapshot.objective_score
                                                 ELSE loop[p].post_snapshot.objective_score
                     /\ \/ loop[p].best_objective = NegInf
                        \/ loop'[p].best_objective
                             > loop[p].best_objective + loop[p].args.improvement_epsilon]_vars

\* a loop run with epsilon 1 has recorded a score of 1 above its best
\* objective 0 in the post_apply phase of iteration 2 and has kept the best
C30_Witness ==
    \E p \in Procs :
        /\ kind[p] = "loop" /\ pc[p] = "l_post_judge"
        /\ loop[p].args.improvement_epsilon = 1
        /\ loop[p].iteration = 2
        /\ loop[p].best_objective = 0
        /\ loop[p].post_snapshot.objective_score = 1
        /\ ~loop[p].skip_post_apply_run

--------------------------------------------------------------------------
(* The objective scorers.  The matrix runner rounds every metric of a summary
   to four decimals, so metrics, floors and scores are integers that count
   units of 0.0001. *)

ScoreDigits == 4
Unit == 10 ^ ScoreDigits

\* Python's round(x, ndigits) of a number with ScoreDigits decimals
round(x, ndigits) ==
    IF ndigits >= ScoreDigits THEN x
    ELSE RoundHalfEven(x, 10 ^ (ScoreDigits - ndigits)) * (10 ^ (ScoreDigits - ndigits))

\* tune_candidate_gate_trade_density.py:530-578 without the slopes of the
\* penalties: a violated floor costs its base penalty only
compute_combo_objective_FlatPenalty(avg_profit_factor, avg_expectancy_krw, profitable_ratio, avg_total_trades, avg_win_rate_pct, min_avg_trades, min_profitable_ratio, min_avg_win_rate_pct, min_expectancy_krw, objective_mode) ==
    LET penalty ==
          (IF avg_total_trades < min_avg_trades
             THEN IF objective_mode = "profitable_ratio_priority" THEN 2200 * Unit
                  ELSE 6000 * Unit
             ELSE 0)
          + (IF profitable_ratio < min_profitable_ratio
               THEN IF objective_mode = "profitable_ratio_priority" THEN 12000 * Unit
                    ELSE 6000 * Unit
               ELSE 0)
          + (IF avg_win_rate_pct < min_avg_win_rate_pct THEN 4000 * Unit ELSE 0)
          + (IF avg_expectancy_krw < min_expectancy_krw THEN 6000 * Unit ELSE 0)
          + (IF avg_profit_factor < Unit THEN (Unit - avg_profit_factor) * 2500 ELSE 0)
    IN  IF penalty > 0 THEN round((0 - penalty) + (avg_profit_factor * 10), 6)
        ELSE round((avg_expectancy_krw * 25) + (profitable_ratio * 4000)
                   + (avg_win_rate_pct * 40) + ((avg_profit_factor - Unit) * 300)
                   + (Min(avg_total_trades, 30 * Unit) * 40), 6)

\* tune_candidate_gate_trade_density.py:530-578
compute_combo_objective(avg_profit_factor, avg_expectancy_krw, profitable_ratio, avg_total_trades, avg_win_rate_pct, min_avg_trades, min_profitable_ratio, min_avg_win_rate_pct, min_expectancy_krw, objective_mode) ==
    LET penalty ==
          (IF objective_mode = "profitable_ratio_priority"
             THEN (IF avg_total_trades < min_avg_trades
                     THEN (2200 * Unit) + ((min_avg_trades - avg_total_trades) * 420)
                     ELSE 0)
                  + (IF profitable_ratio < min_profitable_ratio
                       THEN (12000 * Unit) + ((min_profitable_ratio - profitable_ratio) * 22000)
                       ELSE 0)
             ELSE (IF avg_total_trades < min_avg_trades
                     THEN (6000 * Unit) + ((min_avg_trades - avg_total_trades) * 800)
                     ELSE 0)
                  + (IF profitable_ratio < min_profitable_ratio
                       THEN (6000 * Unit) + ((min_profitable_ratio - profitable_ratio) * 9000)
                       ELSE 0))
          + (IF avg_win_rate_pct < min_avg_win_rate_pct
               THEN (4000 * Unit) + ((min_avg_win_rate_pct - avg_win_rate_pct) * 180)
               ELSE 0)
          + (IF avg_expectancy_krw < min_expectancy_krw
               THEN (6000 * Unit) + ((min_expectancy_krw - avg_expectancy_krw) * 120)
               ELSE 0)
          + (IF avg_profit_factor < Unit THEN (Unit - avg_profit_factor) * 2500 ELSE 0)
    IN  IF penalty > 0
          THEN round((0 - penalty) + (avg_profit_factor * 10), 6)
          ELSE IF objective_mode = "profitable_ratio_priority"
            THEN round((profitable_ratio * 9000) + (avg_expectancy_krw * 32)
                       + (avg_win_rate_pct * 42) + ((avg_profit_factor - Unit) * 220)
                       + (Min(avg_total_trades, 20 * Unit) * 12), 6)
            ELSE round((avg_expectancy_krw * 25) + (profitable_ratio * 4000)
                       + (avg_win_rate_pct * 40) + ((avg_profit_factor - Unit) * 300)
                       + (Min(avg_total_trades, 30 * Unit) * 40), 6)

\* run_candidate_auto_improvement_loop.py:109-141
compute_objective_score(avg_profit_factor, avg_expectancy_krw, profitable_ratio, avg_win_rate_pct, avg_total_trades, min_trades_floor, min_profitable_ratio, min_avg_win_rate_pct, min_expectancy_krw) ==
    LET penalty ==
          (IF avg_total_trades < min_trades_floor
             THEN (6000 * Unit) + ((min_trades_floor - avg_total_trades) * 800)
             ELSE 0)
          + (IF profitable_ratio < min_profitable_ratio
               THEN (6000 * Unit) + ((min_profitable_ratio - profitable_ratio) * 9000)
               ELSE 0)
          + (IF avg_win_rate_pct < min_avg_win_rate_pct
               THEN (4000 * Unit) + ((min_avg_win_rate_pct - avg_win_rate_pct) * 180)
               ELSE 0)
          + (IF avg_expectancy_krw < min_expectancy_krw
               THEN (6000 * Unit) + ((min_expectancy_krw - avg_expectancy_krw) * 120)
               ELSE 0)
          + (IF avg_profit_factor < Unit THEN (Unit - avg_profit_factor) * 2500 ELSE 0)
    IN  IF penalty > 0
          THEN round((0 - penalty) + (avg_profit_factor * 10), 6)
          ELSE round((avg_expectancy_krw * 25) + (profitable_ratio * 4000)
                     + (avg_win_rate_pct * 40) + ((avg_profit_factor - Unit) * 300)
                     + (Min(avg_total_trades, 30 * Unit) * 40), 6)

\* the metric rows that are scored: around each default floor a value that meets
\* it, one just below it and one further below
MetricRows ==
    [avg_profit_factor : {500, 10000},
     avg_expectancy_krw : {0 - 15000, 0 - 1, 55000},
     profitable_ratio : {2500, 4999, 7500},
     avg_total_trades : {75000, 79999, 120000},
     avg_win_rate_pct : {470000, 479999, 555000}]

\* the default floors (lines 777-780) and the floors of a relaxed report
ThresholdSets ==
    {[min_avg_trades |-> 80000, min_profitable_ratio |-> 5000,
      min_avg_win_rate_pct |-> 480000, min_expectancy_krw |-> 0],
     [min_avg_trades |-> 78000, min_profitable_ratio |-> 4000,
      min_avg_win_rate_pct |-> 475000, min_expectancy_krw |-> 0 - 10000]}

ObjectiveModes == {"balanced", "profitable_ratio_priority"}

\* the score of a row by the scorer of the tuning run
ComboScore(row, th, mode) ==
    compute_combo_objective(row.avg_profit_factor, row.avg_expectancy_krw,
                            row.profitable_ratio, row.avg_total_trades,
                            row.avg_win_rate_pct, th.min_avg_trades,
                            th.min_profitable_ratio, th.min_avg_win_rate_pct,
                            th.min_expectancy_krw, mode)

\* the score of a row by the scorer of the loop
LoopScore(row, th) ==
    compute_objective_score(row.avg_profit_factor, row.avg_expectancy_krw,
                            row.profitable_ratio, row.avg_win_rate_pct,
                            row.avg_total_trades, th.min_avg_trades,
                            th.min_profitable_ratio, th.min_avg_win_rate_pct,
                            th.min_expectancy_krw)

\* two rows are scored under the same thresholds and mode
Score ==
    /\ ~scorer.done
    /\ scorer.a # NoMetrics
    /\ scorer' = [scorer EXCEPT
                    !.done = TRUE,
                    !.a_combo = ComboScore(scorer.a, scorer.thresholds, scorer.objective_mode),
                    !.b_combo = ComboScore(scorer.b, scorer.thresholds, scorer.objective_mode),
                    !.a_loop = LoopScore(scorer.a, scorer.thresholds),
                    !.b_loop = LoopScore(scorer.b, scorer.thresholds)]
    /\ UNCHANGED <<lockVars, kind, call, matrix, loop, tuneVars>>

InitScore ==
    /\ now = 0
    /\ lockFile = NoFile
    /\ marker = [p \in Procs |-> Unset]
    /\ pc = [p \in Procs |-> "idle"]
    /\ start = [p \in Procs |-> 0]
    /\ wake = [p \in Procs |-> 0]
    /\ fd = [p \in Procs |-> FALSE]
    /\ prev = [p \in Procs |-> Unset]
    /\ raised = [p \in Procs |-> FALSE]
    /\ nestedCalls = [p \in Procs |-> 0]
    /\ hist = [p \in Procs |-> NoHist]
    /\ kind = [p \in Procs |-> "tune"]
    /\ configFile = BaseConfig
    /\ cacheFile = AbsentCache
    /\ artifacts = {}
    /\ tune = [p \in Procs |-> NoTune]
    /\ plan = [p \in Procs |-> <<>>]
    /\ loop = [p \in Procs |-> NoLoop]
    /\ \E mode \in ObjectiveModes, th \in ThresholdSets, a, b \in MetricRows :
          scorer = [NoScore EXCEPT !.objective_mode = mode, !.thresholds = th,
                                   !.a = a, !.b = b]
    /\ call = NoCall
    /\ matrix = NoMatrix

NextScore == Score

SpecScore == InitScore /\ [][NextScore]_vars

\* the floors a row violates
ViolatedFloors(row, th) ==
    {f \in {"trades", "ratio", "win_rate", "expectancy"} :
        \/ f = "trades" /\ row.avg_total_trades < th.min_avg_trades
        \/ f = "ratio" /\ row.profitable_ratio < th.min_profitable_ratio
        \/ f = "win_rate" /\ row.avg_win_rate_pct < th.min_avg_win_rate_pct
        \/ f = "expectancy" /\ row.avg_expectancy_krw < th.min_expectancy_krw}

\* C15: of two rows scored under the same thresholds and mode, one that
\* violates no floor has a greater score than one that violates a floor, by
\* the scorer of the tuning run and by the scorer of the loop.
C15_FeasibleAboveInfeasible ==
    (/\ scorer.done
     /\ ViolatedFloors(scorer.a, scorer.thresholds) = {}
     /\ ViolatedFloors(scorer.b, scorer.thresholds) # {})
      => (scorer.a_combo > scorer.b_combo /\ scorer.a_loop > scorer.b_loop)

\* the metric of a row a floor is about
FloorMetric(row, f) ==
    IF f = "trades" THEN row.avg_total_trades
    ELSE IF f = "ratio" THEN row.profitable_ratio
    ELSE IF f = "win_rate" THEN row.avg_win_rate_pct
    ELSE row.avg_expectancy_krw

\* row b is row a with a greater shortfall below the floor f, which a violates
DeeperBelow(f) ==
    /\ f \in ViolatedFloors(scorer.a, scorer.thresholds)
    /\ FloorMetric(scorer.b, f) < FloorMetric(scorer.a, f)
    /\ \A g \in {"trades", "ratio", "win_rate", "expectancy"} \ {f} :
          FloorMetric(scorer.b, g) = FloorMetric(scorer.a, g)
    /\ scorer.b.avg_profit_factor = scorer.a.avg_profit_factor

\* C16: a row that violates a floor and a second row that differs from it only
\* by a lower value of that floor's metric: the second has the lower score, in
\* either objective mode.
C16_ShortfallLowersScore ==
    \A f \in {"trades", "ratio", "win_rate", "expectancy"} :
        (scorer.done /\ DeeperBelow(f)) => scorer.b_combo < scorer.a_combo

\* two rows that differ by the depth of the trades shortfall only have been
\* scored in profitable_ratio_priority mode
C16_Witness ==
    /\ scorer.done
    /\ scorer.objective_mode = "profitable_ratio_priority"
    /\ DeeperBelow("trades")
    /\ scorer.b_combo < scorer.a_combo

--------------------------------------------------------------------------
(* The combo generator and the dataset sampler, called on their own.  The
   sampler multiplies by a float step (line 416); for the list lengths of the
   model the product is the exact quotient RoundHalfEven rounds. *)

\* dataset files a call of the sampler is given at most
MaxDatasets == 6
\* candidates a call of dedupe_combos is given at most
MaxCombos == 3

\* the calls of the model: the generator with every choice of --scenario-mode
\* (line 754), flag and maximum; dedupe_combos with every list of up to
\* MaxCombos candidates that have two ids and two tunable contents; the
\* sampler with the sorted, duplicate-free list of get_dataset_list (line 136)
\* of every length, and every limit
Calls ==
    {[NoCall EXCEPT !.fn = "build_combo_specs", !.scenario_mode = mode,
                    !.include_legacy = leg, !.max_scenarios = mx] :
        mode \in {"legacy_only", "diverse_light", "diverse_wide", "quality_focus"},
        leg \in BOOLEAN, mx \in (0 - 1)..(MaxCombos + 2)}
    \cup {[NoCall EXCEPT !.fn = "dedupe_combos", !.combos = l] :
             l \in UNION {[1..k -> [combo_id : {"x", "y"}, fp : {"f1", "f2"}]] :
                            k \in 0..MaxCombos}}
    \cup {[NoCall EXCEPT !.fn = "select_evenly_spaced_datasets",
                         !.datasets = [i \in 1..n |-> i], !.limit = k] :
             n \in 0..MaxDatasets, k \in (0 - 1)..(MaxDatasets + 1)}

\* line 857: the generator is called, and called once more
CallBuild ==
    /\ call.fn = "build_combo_specs" /\ ~call.done
    /\ call' = [call EXCEPT
                  !.done = TRUE,
                  !.result = build_combo_specs(call.scenario_mode, call.include_legacy,
                                               call.max_scenarios),
                  !.again = build_combo_specs(call.scenario_mode, call.include_legacy,
                                              call.max_scenarios)]
    /\ UNCHANGED <<lockVars, kind, scorer, matrix, loop, tuneVars>>

\* line 403
CallDedupe ==
    /\ call.fn = "dedupe_combos" /\ ~call.done
    /\ call' = [call EXCEPT !.done = TRUE,
                            !.result = dedupe_combos(call.combos),
                            !.again = dedupe_combos(call.combos)]
    /\ UNCHANGED <<lockVars, kind, scorer, matrix, loop, tuneVars>>

\* line 872
CallSample ==
    /\ call.fn = "select_evenly_spaced_datasets" /\ ~call.done
    /\ call' = [call EXCEPT
                  !.done = TRUE,
                  !.result = select_evenly_spaced_datasets(call.datasets, call.limit),
                  !.again = select_evenly_spaced_datasets(call.datasets, call.limit)]
    /\ UNCHANGED <<lockVars, kind, scorer, matrix, loop, tuneVars>>

InitCall ==
    /\ now = 0
    /\ lockFile = NoFile
    /\ marker = [p \in Procs |-> Unset]
    /\ pc = [p \in Procs |-> "idle"]
    /\ start = [p \in Procs |-> 0]
    /\ wake = [p \in Procs |-> 0]
    /\ fd = [p \in Procs |-> FALSE]
    /\ prev = [p \in Procs |-> Unset]
    /\ raised = [p \in Procs |-> FALSE]
    /\ nestedCalls = [p \in Procs |-> 0]
    /\ hist = [p \in Procs |-> NoHist]
    /\ kind = [p \in Procs |-> "tune"]
    /\ configFile = BaseConfig
    /\ cacheFile = AbsentCache
    /\ artifacts = {}
    /\ tune = [p \in Procs |-> NoTune]
    /\ plan = [p \in Procs |-> <<>>]
    /\ loop = [p \in Procs |-> NoLoop]
    /\ scorer = NoScore
    /\ call \in Calls
    /\ matrix = NoMatrix

NextCall == CallBuild \/ CallDedupe \/ CallSample

SpecCall == InitCall /\ [][NextCall]_vars

\* the candidates of a list that no earlier candidate of the list shares its
\* fingerprint with, in the order of the list
FirstOccurrences(combos) ==
    LET first == {i \in 1..Len(combos) :
                    \A j \in 1..(i - 1) :
                       combo_fingerprint(combos[j]) # combo_fingerprint(combos[i])}
        order == Ascending(first)
    IN  [k \in 1..Len(order) |-> combos[order[k]]]

\* C22: for every scenario mode, legacy flag and maximum the generator returns
\* the same list on a second call; no two candidates of the list share a
\* fingerprint; the list holds, in their order, the first occurrences of the
\* fingerprints among the generated candidates, all of them when the maximum
\* is not positive and the first max_scenarios of them at most when it is,
\* and so is a prefix of the list of the call without a maximum.  A call of
\* dedupe_combos returns the first occurrences of its argument.
C22_GeneratorDeterministicDeduped ==
    call.done =>
      /\ call.fn = "build_combo_specs" =>
            LET raw == IF call.scenario_mode = "legacy_only" THEN legacy
                       ELSE IF call.include_legacy
                         THEN legacy \o generated(call.scenario_mode, call.max_scenarios)
                       ELSE generated(call.scenario_mode, call.max_scenarios)
                unique == FirstOccurrences(raw)
                whole == build_combo_specs(call.scenario_mode, call.include_legacy, 0)
                n == Len(call.result)
            IN  /\ call.again = call.result
                /\ \A i, j \in 1..n :
                      i # j => combo_fingerprint(call.result[i])
                                 # combo_fingerprint(call.result[j])
                /\ n <= Len(unique) /\ call.result = SubSeq(unique, 1, n)
                /\ call.max_scenarios <= 0 => n = Len(unique)
                /\ call.max_scenarios > 0 => n = Min(call.max_scenarios, Len(unique))
                /\ n <= Len(whole) /\ call.result = SubSeq(whole, 1, n)
      /\ call.fn = "dedupe_combos" =>
            /\ call.again = call.result
            /\ \A i, j \in 1..Len(call.result) :
                  i # j => combo_fingerprint(call.result[i])
                             # combo_fingerprint(call.result[j])
            /\ call.result = FirstOccurrences(call.combos)

\* a call of the generator with a positive maximum in which a generated
\* candidate was dropped as a duplicate of an earlier one
C22_Witness ==
    /\ call.done /\ call.fn = "build_combo_specs"
    /\ call.max_scenarios > 0
    /\ ~call.include_legacy
    /\ Len(call.result) < Len(generated(call.scenario_mode, call.max_scenarios))
    /\ call.result = FirstOccurrences(generated(call.scenario_mode, call.max_scenarios))

\* C23: the sampler returns the same list on a second call; for a limit
\* between 0 and the number of datasets, both excluded, it returns exactly
\* limit datasets, all different, in the order they have in the list; for a
\* limit of 0 or less, or of the number of datasets or more, it returns the
\* list as it is.
C23_SamplerExactInOrder ==
    (call.done /\ call.fn = "select_evenly_spaced_datasets") =>
      LET n == Len(call.datasets)
          r == call.result
          Position(x) == CHOOSE k \in 1..n : call.datasets[k] = x
      IN  /\ call.again = r
          /\ (call.limit <= 0 \/ call.limit >= n) => r = call.datasets
          /\ (0 < call.limit /\ call.limit < n) =>
                /\ Len(r) = call.limit
                /\ \A i \in 1..Len(r) : \E k \in 1..n : call.datasets[k] = r[i]
                /\ \A i, j \in 1..Len(r) : i < j => Position(r[i]) < Position(r[j])

\* a call with a limit inside the list length in which a spaced index fell on
\* a tie and was rounded to the even neighbour
C23_Witness ==
    /\ call.done /\ call.fn = "select_evenly_spaced_datasets"
    /\ Len(call.datasets) = 6 /\ call.limit = 3
    /\ call.result = <<1, 3, 6>>

--------------------------------------------------------------------------
Init ==
    /\ now = 0
    /\ lockFile \in {NoFile, DeadFile}
    /\ marker \in [Procs -> {Unset, "0"}]
    /\ pc = [p \in Procs |-> "call"]
    /\ start = [p \in Procs |-> 0]
    /\ wake = [p \in Procs |-> 0]
    /\ fd = [p \in Procs |-> FALSE]
    /\ prev = [p \in Procs |-> Unset]
    /\ raised = [p \in Procs |-> FALSE]
    /\ nestedCalls = [p \in Procs |-> 0]
    /\ hist = [p \in Procs |-> NoHist]
    /\ kind = [p \in Procs |-> "body"]
    /\ scorer = NoScore
    /\ call = NoCall
    /\ matrix = NoMatrix
    /\ configFile = BaseConfig
    /\ cacheFile = AbsentCache
    /\ artifacts = {}
    /\ tune = [p \in Procs |-> NoTune]
    /\ plan = [p \in Procs |-> <<>>]
    /\ loop = [p \in Procs |-> NoLoop]

Next ==
    \/ Tick
    \/ \E p \in Procs :
          \/ LockEnter(p)
          \/ LockTryCreate(p)
          \/ LockStat(p)
          \/ LockUnlinkStale(p)
          \/ LockTimeoutCheck(p)
          \/ LockWake(p)
          \/ LockNestedReturn(p)
          \/ LockRelease(p)
          \/ BodyStep(p)
          \/ NestedBodyStep(p)

Spec == Init /\ [][Next]_vars

--------------------------------------------------------------------------
(* The claims about verification_lock, under Spec *)

TypeOK ==
    /\ now \in 0..MaxTime
    /\ marker \in [Procs -> MarkerValues]
    /\ lockFile = NoFile \/ lockFile.owner \in Procs \cup {"dead"}

\* the positions of a process waiting for the lock file
Waiting == {"create", "stat", "unlink", "timeout_check", "sleep"}

\* C1: of the processes calling verification_lock on one lock path, none of
\* them with the marker set beforehand, no two are inside the critical section
\* together, also when a waiter removes a file it judges stale and retries.
C1_MutualExclusion == Cardinality({p \in Procs : InBody(p)}) <= 1

\* C9: a process that holds the lock goes through a nested verification_lock
\* at once, never waiting on the lock file, and leaving the nested scope
\* neither deletes the lock file nor clears the marker: from its acquisition
\* until it leaves the outer with statement, across its nested calls, the lock
\* file is its own and its marker is "1".
C9_HeldAcrossNested ==
    \A p \in Procs :
        fd[p] => /\ pc[p] \notin Waiting
                 /\ marker[p] = "1"
                 /\ lockFile.owner = p

\* C6: an attempt that finds a lock file older than the staleness threshold
\* removes it and goes straight to the next create attempt, with no sleep and
\* no timeout test in between, and that attempt acquires the lock if no other
\* process has created the file meanwhile.
C6_StaleReclaim ==
    [][\A p \in Procs :
          /\ (pc[p] = "stat" /\ lockFile # NoFile /\ (now - lockFile.mtime) > StaleSec
                /\ pc'[p] # pc[p])
                => pc'[p] = "unlink"
          /\ (pc[p] = "unlink" /\ pc'[p] # pc[p])
                => (pc'[p] = "create" /\ lockFile' = NoFile /\ hist'[p].afterUnlink)
          /\ (pc[p] = "create" /\ hist[p].afterUnlink /\ lockFile = NoFile /\ pc'[p] # pc[p])
                => (pc'[p] = "cs" /\ lockFile'.owner = p /\ fd'[p])
          /\ (hist[p].afterUnlink /\ pc'[p] \in {"sleep", "timeout_check", "timedout"})
                => pc[p] = pc'[p]]_vars

\* a process is in the critical section it entered by the create attempt that
\* followed its removal of a stale file
C6_Witness ==
    \E p \in Procs :
        /\ pc[p] = "cs" /\ hist[p].afterUnlink /\ hist[p].acquired
        /\ lockFile.owner = p

\* C7: a waiter that finds the file present and not stale sleeps one poll
\* while the timeout has not elapsed and raises TimeoutError once it has; the
\* raise leaves the lock file as it is, and the process that timed out has not
\* entered the critical section.
C7_Timeout ==
    [][\A p \in Procs :
          /\ (pc[p] = "stat" /\ lockFile # NoFile /\ (now - lockFile.mtime) <= StaleSec
                /\ pc'[p] # pc[p])
                => pc'[p] = "timeout_check"
          /\ (pc[p] = "timeout_check" /\ pc'[p] # pc[p])
                => IF (now - start[p]) >= TimeoutSec
                     THEN pc'[p] = "timedout" /\ lockFile' = lockFile
                     ELSE pc'[p] = "sleep" /\ lockFile' = lockFile
          /\ (pc[p] = "sleep" /\ pc'[p] # pc[p]) => pc'[p] = "create"
          /\ pc'[p] = "timedout"
                => (~hist'[p].acquired /\ ~fd'[p] /\ marker'[p] = hist'[p].markerBefore)
          /\ pc[p] = "timedout" => pc'[p] = "timedout"]_vars

\* a waiter has timed out against the file of a holder that is still inside
C7_Witness ==
    \E p, q \in Procs :
        /\ p # q
        /\ pc[p] = "timedout" /\ (now - start[p]) >= TimeoutSec
        /\ InBody(q) /\ lockFile.owner = q /\ (now - lockFile.mtime) <= StaleSec

\* C8: when a process that acquired the lock leaves the with statement, the
\* body having ended or raised, the lock file does not exist and the marker
\* has the value it had before the acquisition.
C8_Release ==
    [][\A p \in Procs :
          (pc[p] = "release" /\ pc'[p] # pc[p])
            => /\ hist[p].acquired
               /\ lockFile' = NoFile
               /\ marker'[p] = hist[p].markerBefore
               /\ ~fd'[p]
               /\ pc'[p] = IF raised[p] THEN "failed" ELSE "done"]_vars

\* a body that raised has been left: the file is gone and the marker is back
\* at the value "0" it had before
C8_Witness ==
    \E p \in Procs :
        /\ pc[p] = "failed" /\ raised[p] /\ hist[p].acquired
        /\ hist[p].markerBefore = "0" /\ marker[p] = "0"
        /\ lockFile = NoFile
\* C29 as stated: a process that leaves the with statement while the lock
\* file is one that another process created leaves that file in place.
C29_ReleaseKeepsOthersFile ==
    [][\A p \in Procs :
          (/\ pc[p] = "release" /\ pc'[p] # pc[p]
           /\ lockFile # NoFile /\ lockFile.owner # p)
            => lockFile' = lockFile]_vars

--------------------------------------------------------------------------
(* The matrix runner, run_profitability_matrix.py, run on its own (SpecMatrix):
   for each requested profile it writes the profile's flags into the shared
   configuration file and runs one backtest per dataset in a thread pool. *)

\* dataset files a run is given at most
MaxMatrixDatasets == 2
\* profiles a run is asked for at most
MaxProfiles == 2
\* os.cpu_count() is at most
MaxCpus == 2

\* run_profitability_matrix.py:209-242: the profile ids, in the order of the list
all_profile_specs == <<"legacy_default", "core_bridge_only", "core_policy_risk", "core_full">>

\* run_profitability_matrix.py:243-244: the requested profiles, in that order
profile_specs(requested_profile_ids) ==
    SelectSeq(all_profile_specs, LAMBDA x : x \in requested_profile_ids)

\* run_profitability_matrix.py:36-41: the four flags of the document are set
\* to the profile's; the base part of the model's document names the flags
apply_profile_flags(cfg, profile_id) == [cfg EXCEPT !.base = profile_id]

\* the backtests of the current profile that are submitted and not finished
Unfinished(m) == {d \in DOMAIN m.worker : m.worker[d] \in {"pending", "running"}}

\* run_profitability_matrix.py:249-259, 274-275: the next profile's flags are
\* written into the configuration file, or the loop is over and the finally
\* clause is next
MatrixWrite ==
    /\ matrix.pc = "m_write"
    /\ IF matrix.idx >= Len(matrix.profile_specs)
         THEN /\ matrix' = [matrix EXCEPT !.pc = "m_finally"]
              /\ UNCHANGED configFile
         ELSE /\ configFile' = apply_profile_flags(matrix.original_config_raw,
                                                   matrix.profile_specs[matrix.idx + 1])
              /\ matrix' = [matrix EXCEPT !.idx = @ + 1, !.pc = "m_submit"]
    /\ UNCHANGED <<lockVars, kind, scorer, call, loop, cacheFile, artifacts, tune, plan>>

\* run_profitability_matrix.py:81-85: the pool is made and one backtest per
\* dataset is submitted
MatrixSubmit ==
    /\ matrix.pc = "m_submit"
    /\ matrix' = [matrix EXCEPT !.worker = [d \in matrix.dataset_paths |-> "pending"],
                                !.collected = {}, !.profile_rows = {},
                                !.pc = "m_collect"]
    /\ UNCHANGED <<lockVars, kind, scorer, call, loop, tuneVars>>

\* a thread of the pool takes a submitted backtest (invoke_backtest_json,
\* 44-50); the pool has max_workers threads (line 83), and a pool that is
\* shut down still runs what was submitted
BacktestStart(d) ==
    /\ d \in DOMAIN matrix.worker
    /\ matrix.worker[d] = "pending"
    /\ Cardinality({e \in DOMAIN matrix.worker : matrix.worker[e] = "running"})
         < Max(1, Min(Cardinality(matrix.dataset_paths), matrix.cpu_count))
    /\ matrix' = [matrix EXCEPT !.worker[d] = "running"]
    /\ UNCHANGED <<lockVars, kind, scorer, call, loop, tuneVars>>

\* run_profitability_matrix.py:44-71: the backtest returns its JSON line, or
\* raises because there is none
BacktestFinish(d) ==
    /\ d \in DOMAIN matrix.worker
    /\ matrix.worker[d] = "running"
    /\ \E outcome \in {"done", "failed"} :
          matrix' = [matrix EXCEPT !.worker[d] = outcome]
    /\ UNCHANGED <<lockVars, kind, scorer, call, loop, tuneVars>>

\* the loop of lines 86-118 that leaves the with statement at its first
\* exception without the pool's shutdown(wait=True): the backtests still
\* running are not waited for
MatrixPoolExit_NoWait ==
    /\ matrix.pc = "m_exit"
    /\ IF matrix.raised
         THEN matrix' = [matrix EXCEPT !.pc = "m_finally"]
         ELSE matrix' = [matrix EXCEPT !.rows = @ \cup matrix.profile_rows,
                                       !.pc = "m_write"]
    /\ UNCHANGED <<lockVars, kind, scorer, call, loop, tuneVars>>

\* run_profitability_matrix.py:86-118: as_completed yields a finished
\* backtest; its result becomes a row, or its exception is raised by
\* fut.result(); when all are yielded the with statement is left
MatrixCollect ==
    /\ matrix.pc = "m_collect"
    /\ \/ \E d \in matrix.dataset_paths \ matrix.collected :
             \/ /\ matrix.worker[d] = "done"
                /\ matrix' = [matrix EXCEPT
                                !.collected = @ \cup {d},
                                !.profile_rows = @ \cup {<<matrix.profile_specs[matrix.idx], d>>}]
             \/ /\ matrix.worker[d] = "failed"
                /\ matrix' = [matrix EXCEPT !.raised = TRUE, !.pc = "m_exit"]
       \/ /\ matrix.collected = matrix.dataset_paths
          /\ matrix' = [matrix EXCEPT !.pc = "m_exit"]
    /\ UNCHANGED <<lockVars, kind, scorer, call, loop, tuneVars>>

\* run_profitability_matrix.py:84, 119-120, 260-268: the with statement of the
\* pool is left: ThreadPoolExecutor.__exit__ calls shutdown(wait=True), which
\* returns when every submitted backtest has run; then the rows are returned
\* and added to the run's rows, or the exception goes on
MatrixPoolExit ==
    /\ matrix.pc = "m_exit"
    /\ Unfinished(matrix) = {}
    /\ IF matrix.raised
         THEN matrix' = [matrix EXCEPT !.pc = "m_finally"]
         ELSE matrix' = [matrix EXCEPT !.rows = @ \cup matrix.profile_rows,
                                       !.pc = "m_write"]
    /\ UNCHANGED <<lockVars, kind, scorer, call, loop, tuneVars>>

\* run_profitability_matrix.py:274-275: the finally clause writes the original
\* text back; an exception then leaves main
MatrixFinally ==
    /\ matrix.pc = "m_finally"
    /\ configFile' = matrix.original_config_raw
    /\ matrix' = [matrix EXCEPT !.pc = IF matrix.raised THEN "m_failed" ELSE "m_csv"]
    /\ UNCHANGED <<lockVars, kind, scorer, call, loop, cacheFile, artifacts, tune, plan>>

\* run_profitability_matrix.py:277-365, 389-393: the matrix and profile CSV
\* files are written; with --include-walk-forward the flags of core_full are
\* written into the configuration file for the walk-forward run
MatrixCsv ==
    /\ matrix.pc = "m_csv"
    /\ IF matrix.rows = {}
         THEN /\ matrix' = [matrix EXCEPT !.raised = TRUE, !.pc = "m_failed"]
              /\ UNCHANGED configFile
       ELSE IF matrix.include_walk_forward
         THEN /\ matrix' = [matrix EXCEPT !.csv = TRUE, !.pc = "m_walk_forward"]
              /\ configFile' = apply_profile_flags(matrix.original_config_raw, "core_full")
         ELSE /\ matrix' = [matrix EXCEPT !.csv = TRUE, !.pc = "m_report"]
              /\ UNCHANGED configFile
    /\ UNCHANGED <<lockVars, kind, scorer, call, loop, cacheFile, artifacts, tune, plan>>

\* run_profitability_matrix.py:394-418: the walk-forward run; the original
\* text is written back whether it fails or not
MatrixWalkForward ==
    /\ matrix.pc = "m_walk_forward"
    /\ configFile' = matrix.original_config_raw
    /\ \/ matrix' = [matrix EXCEPT !.raised = TRUE, !.pc = "m_failed"]
       \/ matrix' = [matrix EXCEPT !.pc = "m_report"]
    /\ UNCHANGED <<lockVars, kind, scorer, call, loop, cacheFile, artifacts, tune, plan>>

\* run_profitability_matrix.py:420-452: the gate report is written
MatrixReport ==
    /\ matrix.pc = "m_report"
    /\ matrix' = [matrix EXCEPT !.report = TRUE, !.pc = "m_done"]
    /\ UNCHANGED <<lockVars, kind, scorer, call, loop, tuneVars>>

\* run_profitability_matrix.py:127-248: one run of the matrix runner, asked
\* for one to MaxProfiles profiles, with one to MaxMatrixDatasets datasets and
\* one to MaxCpus processors; the configuration file has the flags of no
\* profile, or those of core_full
InitMatrix ==
    /\ now = 0
    /\ lockFile = NoFile
    /\ marker = [p \in Procs |-> Unset]
    /\ pc = [p \in Procs |-> "idle"]
    /\ start = [p \in Procs |-> 0]
    /\ wake = [p \in Procs |-> 0]
    /\ fd = [p \in Procs |-> FALSE]
    /\ prev = [p \in Procs |-> Unset]
    /\ raised = [p \in Procs |-> FALSE]
    /\ nestedCalls = [p \in Procs |-> 0]
    /\ hist = [p \in Procs |-> NoHist]
    /\ kind = [p \in Procs |-> "tune"]
    /\ configFile \in {BaseConfig, apply_profile_flags(BaseConfig, "core_full")}
    /\ cacheFile = AbsentCache
    /\ artifacts = {}
    /\ tune = [p \in Procs |-> NoTune]
    /\ plan = [p \in Procs |-> <<>>]
    /\ loop = [p \in Procs |-> NoLoop]
    /\ scorer = NoScore
    /\ call = NoCall
    /\ \E ids \in SUBSET {all_profile_specs[i] : i \in 1..Len(all_profile_specs)},
          n \in 1..MaxMatrixDatasets, c \in 1..MaxCpus, w \in BOOLEAN :
          /\ ids # {} /\ Cardinality(ids) <= MaxProfiles
          /\ matrix = [NoMatrix EXCEPT !.pc = "m_write",
                                       !.profile_specs = profile_specs(ids),
                                       !.dataset_paths = 1..n, !.cpu_count = c,
                                       !.include_walk_forward = w,
                                       !.original_config_raw = configFile]

NextMatrix ==
    \/ MatrixWrite
    \/ MatrixSubmit
    \/ \E d \in 1..MaxMatrixDatasets : BacktestStart(d) \/ BacktestFinish(d)
    \/ MatrixCollect
    \/ MatrixPoolExit
    \/ MatrixFinally
    \/ MatrixCsv
    \/ MatrixWalkForward
    \/ MatrixReport

SpecMatrix == InitMatrix /\ [][NextMatrix]_vars

\* C27: a step that writes the configuration file for a profile, or writes the
\* original text back, is taken with no backtest of the run submitted and
\* unfinished, and so is every step that changes the file's content, also
\* after a backtest has raised; a backtest that raised and was yielded makes
\* the run fail: from then on no further profile is started, no CSV file and
\* no report is written, and a run that has failed has the original text in
\* the configuration file.
C27_FanOutJoinsBeforeConfigWrite ==
    [][/\ (matrix.pc \in {"m_write", "m_finally"} /\ matrix'.pc # matrix.pc)
             => Unfinished(matrix) = {}
       /\ configFile' # configFile => Unfinished(matrix) = {}
       /\ Unfinished(matrix) # {} => matrix.pc \in {"m_collect", "m_exit"}
       /\ (matrix.pc \in {"m_collect", "m_exit"} /\ matrix.raised)
             => /\ matrix'.pc \in {"m_exit", "m_finally"}
                /\ matrix'.idx = matrix.idx
                /\ matrix'.rows = matrix.rows
                /\ ~matrix.csv /\ ~matrix.report
       /\ matrix.raised
             => /\ matrix'.raised
                /\ matrix'.report = matrix.report
                /\ matrix'.csv = matrix.csv
       /\ (matrix'.pc = "m_failed")
             => /\ configFile' = matrix.original_config_raw
                /\ ~matrix'.report]_vars

\* a backtest of the first of two profiles has raised while another backtest
\* was still running; the run has failed with the original text written back
\* and no file written
C27_Witness ==
    /\ matrix.pc = "m_failed"
    /\ Len(matrix.profile_specs) = 2 /\ matrix.idx = 1
    /\ Cardinality(matrix.dataset_paths) = 2
    /\ \E d \in matrix.dataset_paths : matrix.worker[d] = "failed"
    /\ \E d \in matrix.dataset_paths : matrix.worker[d] = "done" /\ d \notin matrix.collected
    /\ ~matrix.csv /\ ~matrix.report
    /\ configFile = matrix.original_config_raw
==========================================================================
